---- MODULE Spec2Model ----
(***************************************************************************)
(* Model of the offline resource-pack lifecycle of the desktop app:        *)
(* desktop-app/src/offline/offlineResourcesInstaller.js (status check,     *)
(* update check, component update, full-pack install, install from zip)    *)
(* and the part of components/DesktopFilePicker.tsx that consumes the      *)
(* result of the update check.                                             *)
(*                                                                         *)
(* The resource directory is modelled by the two files the status check    *)
(* probes (model file, inference binary) plus the hidden local manifest.   *)
(* A file's content is identified by its sha256 ("h1", "h2"), by "h0" for  *)
(* the artifact of a component published without a hash, by "bad" for      *)
(* bytes that match no published hash, and by "pk" for the copy shipped    *)
(* in the full pack archive.                                               *)
(*                                                                         *)
(* The second half models the offline analysis: the batch handler of       *)
(* main.js with analyzePdfAtPath and the llama.cpp runner (SpecAnalysis),  *)
(* and buildPrompt and extractJsonObject as functions of their arguments   *)
(* (SpecPrompt, SpecJson).                                                 *)
(***************************************************************************)
EXTENDS Integers, Sequences, FiniteSets, TLC

VARIABLES
    remote,             \* the manifest currently published at manifestUrl
    disk,               \* resource directory: path -> content
    localManifest,      \* <baseDir>/.offline-pack.json
    op,                 \* the handler in flight in the main process
    offlineUpdateInfo,  \* renderer state set by handleCheckOfflineUpdate
    lastApplied,        \* history: last finished call was a successful update
                        \* against the manifest that is still published
    batch,              \* the analysis:analyzePdfPaths handler and the
                        \* analyzePdfAtPath pipeline of the file it is at
    call,               \* argument and result of a pure function under test
    ui                  \* renderer: state of App and DesktopFilePicker

packVars == <<remote, disk, localManifest, op, offlineUpdateInfo, lastApplied>>

vars == <<remote, disk, localManifest, op, offlineUpdateInfo, lastApplied,
          batch, call, ui>>

(***************************************************************************)
(* Values                                                                  *)
(***************************************************************************)
Null == "null"            \* JSON null
Undef == "undefined"      \* property absent from the JSON document

NoFile == "absent"

PlatformKey == "mac-arm64"
OtherPlatformKey == "win-x64"
PlatformKeys == {PlatformKey, OtherPlatformKey}

ModelPath == "models/model-8b-q4.gguf"
LlamaDir == "llama/mac-arm64"
LlamaPath == "llama/mac-arm64/llama"
Paths == {ModelPath, LlamaPath}

EmptyFn == [n \in {} |-> Null]

\* Bound on the nesting of installOfflineResources frames whose try block
\* is still open (install -> update -> install -> ...).
MaxDepth == 2

(***************************************************************************)
(* Remote manifests                                                        *)
(***************************************************************************)
ModelBase ==
    [name |-> "model-8b-q4", type |-> "file", url |-> "u-model",
     path |-> ModelPath, extractTo |-> Undef, version |-> Null, sha256 |-> "h1"]

LlamaBase ==
    [name |-> "llama-mac-arm64", type |-> "zip", url |-> "u-llama",
     path |-> LlamaDir, extractTo |-> LlamaDir, version |-> Null, sha256 |-> "h1"]

LlamaWin ==
    [name |-> "llama-win-x64", type |-> "zip", url |-> "u-llama-win",
     path |-> "llama/win-x64", extractTo |-> "llama/win-x64",
     version |-> Null, sha256 |-> "h1"]

Manifest(v, common, plat) ==
    [version |-> v,
     common |-> common,
     platform |-> [k \in PlatformKeys |->
                      IF k = PlatformKey THEN plat ELSE <<LlamaWin>>]]

BaseManifest == Manifest("v1", <<ModelBase>>, <<LlamaBase>>)

\* The manifests the publisher may put at manifestUrl: the base manifest,
\* one with a patched inference binary under the same pack version, a bare
\* version bump, a manifest whose model entry carries neither hash nor
\* version, one without a pack version, one without the platform's binary
\* and one that describes no component at all for this platform.
RemoteManifests ==
    { BaseManifest,
      Manifest("v1", <<ModelBase>>, <<[LlamaBase EXCEPT !.sha256 = "h2"]>>),
      Manifest("v2", <<ModelBase>>, <<LlamaBase>>),
      Manifest("v1", <<[ModelBase EXCEPT !.sha256 = Undef, !.version = Undef]>>,
               <<LlamaBase>>),
      Manifest(Null, <<ModelBase>>, <<LlamaBase>>),
      Manifest("v1", <<ModelBase>>, <<>>),
      Manifest("v1", <<>>, <<>>) }

NoManifest == [exists |-> FALSE, version |-> Null, components |-> EmptyFn]

(***************************************************************************)
(* Pure helpers                                                            *)
(***************************************************************************)
\* JavaScript `x || null` on a string-or-absent value.
OrNull(x) == IF x \in {Undef, Null} THEN Null ELSE x

\* JavaScript truthiness of a string-or-absent value.
Truthy(x) == x \notin {Undef, Null}

\* [...(common || []), ...(platform[platformKey] || [])]
ApplicableComponents(m) == m.common \o m.platform[PlatformKey]

SeqRange(s) == { s[k] : k \in 1..Len(s) }

\* The artifact the publisher serves for a component.
Served(c) == IF Truthy(c.sha256) THEN c.sha256 ELSE "h0"

\* Where a component lands in the resource directory.
Target(c) == IF c.type = "zip" THEN LlamaPath ELSE c.path

StatusInstalled(d) == d[ModelPath] # NoFile /\ d[LlamaPath] # NoFile

GetOfflineResourcesStatus(d, lm) ==
    [installed |-> StatusInstalled(d),
     missing |-> { p \in Paths : d[p] = NoFile },
     installedPackVersion |-> IF lm.exists THEN OrNull(lm.version) ELSE Null]

ComponentNeedsUpdateByHash(c, lm) ==
    /\ Truthy(c.name) /\ Truthy(c.url) /\ Truthy(c.path)
    /\ \/ c.name \notin DOMAIN lm.components
       \/ lm.components[c.name].sha256 # c.sha256

\* The filter of checkOfflinePackUpdate: does component c need an update?
ComponentNeedsUpdate(c, lm) ==
    /\ Truthy(c.name) /\ Truthy(c.url) /\ Truthy(c.path)
    /\ \/ c.name \notin DOMAIN lm.components
       \/ lm.components[c.name].url # c.url
       \/ lm.components[c.name].sha256 # c.sha256
       \/ lm.components[c.name].version # c.version

\* components.filter(name && url && path).filter(differs).map(c => c.name)
RECURSIVE ComponentsToUpdate(_, _)
ComponentsToUpdate(comps, lm) ==
    IF comps = <<>> THEN <<>>
    ELSE (IF ComponentNeedsUpdate(Head(comps), lm)
          THEN <<Head(comps).name>> ELSE <<>>)
         \o ComponentsToUpdate(Tail(comps), lm)

NeedsUpdate(status, latestVersion) ==
    \/ ~status.installed
    \/ (Truthy(latestVersion) /\ status.installedPackVersion # latestVersion)

\* Result of checkOfflinePackUpdate when the manifest was fetched.
CheckResult(m, d, lm) ==
    LET status == GetOfflineResourcesStatus(d, lm)
        comps == ApplicableComponents(m)
    IN [ok |-> TRUE,
        message |-> Undef,
        installedVersion |-> status.installedPackVersion,
        latestVersion |-> OrNull(m.version),
        needsUpdate |-> NeedsUpdate(status, OrNull(m.version)),
        componentsToUpdate |-> ComponentsToUpdate(comps, lm)]

\* Result of checkOfflinePackUpdate when fetching the manifest failed.
CheckResultUnavailable(d, lm) ==
    LET status == GetOfflineResourcesStatus(d, lm)
    IN [ok |-> FALSE,
        message |-> "manifest-not-available",
        installedVersion |-> status.installedPackVersion,
        latestVersion |-> Null,
        needsUpdate |-> ~status.installed,
        componentsToUpdate |-> <<>>]

\* The entry updateOfflineResources records for an installed component.
Recorded(c) ==
    [name |-> c.name,
     url |-> c.url,
     path |-> c.path,
     type |-> IF Truthy(c.type) THEN c.type ELSE "file",
     version |-> OrNull(c.version),
     sha256 |-> OrNull(c.sha256)]

\* What the full pack archive puts under resources/.
PackDisk(pack) ==
    [p \in Paths |-> IF p = LlamaPath /\ pack = "incomplete" THEN NoFile ELSE "pk"]

EmptyDisk == [p \in Paths |-> NoFile]

(***************************************************************************)
(* The handler in flight                                                   *)
(***************************************************************************)
NoStatus == [installed |-> FALSE, missing |-> {}, installedPackVersion |-> Null]

NoCheck ==
    [ok |-> FALSE, message |-> Undef, installedVersion |-> Null,
     latestVersion |-> Null, needsUpdate |-> FALSE, componentsToUpdate |-> <<>>]

\* offlineUpdateInfo; the two version strings are display-only and left out.
NoInfo == [present |-> FALSE, needsUpdate |-> FALSE, message |-> Undef]

IdleOp ==
    [kind |-> "none",            \* IPC handler: check, install, update, zip
     pc |-> "idle",
     frames |-> 0,               \* open try blocks of installOfflineResources
     remote |-> Manifest(Null, <<>>, <<>>),   \* manifest fetched by the update
     i |-> 0,                    \* index of the component being processed
     componentsInstalled |-> EmptyFn,
     downloaded |-> {},          \* components downloaded by this call
     packDownloaded |-> FALSE,   \* full pack archive downloaded by this call
     packInstalled |-> FALSE,    \* full pack copied into the directory
     pack |-> "none",
     fallback |-> FALSE,         \* an update found no component to install
     updated |-> FALSE,
     mismatch |-> FALSE,         \* a download did not match its sha256
     err |-> "none",
     status |-> NoStatus,        \* returned status
     check |-> NoCheck,          \* returned check result
     preDisk |-> EmptyDisk,      \* directory content when the call started
     manifestTouched |-> FALSE,  \* the local manifest was removed or written
     preManifestExists |-> FALSE,
     flagged |-> {},             \* history: what the update check would flag
     afterApply |-> FALSE]

Throw(o, e) ==
    IF o.frames > 0
    THEN [o EXCEPT !.frames = @ - 1, !.pc = "legacy"]
    ELSE [o EXCEPT !.pc = "done", !.err = e]

Return(o, d, lm) ==
    [o EXCEPT !.pc = "done", !.frames = 0,
              !.status = GetOfflineResourcesStatus(d, lm)]

Start(kind, pc) ==
    [IdleOp EXCEPT !.kind = kind, !.pc = pc, !.preDisk = disk,
                   !.preManifestExists = localManifest.exists,
                   !.afterApply = lastApplied]

\* Mutation: the early return keyed on the recorded pack version instead of
\* on the presence of the model file and the binary.
InstallEarlyReturnByVersion(status) == status.installedPackVersion # Null

\* `if (status.installed) return status;`
InstallEarlyReturn(status) == status.installed

\* No analysis batch in flight, no function under test.
NoBatch == [bpc |-> "idle", platform |-> "darwin"]
NoCall == [fn |-> "none"]
NoUi == [mounted |-> FALSE]

(***************************************************************************)
(* Initial state: a fresh installation, the base manifest published.       *)
(***************************************************************************)
Init ==
    /\ remote = BaseManifest
    /\ disk = EmptyDisk
    /\ localManifest = NoManifest
    /\ op = IdleOp
    /\ offlineUpdateInfo = NoInfo
    /\ lastApplied = FALSE
    /\ batch = NoBatch
    /\ call = NoCall
    /\ ui = NoUi

(***************************************************************************)
(* Environment                                                             *)
(***************************************************************************)
\* The publisher replaces the manifest at manifestUrl.  A handler reads the
\* manifest only in its fetch, so a replacement while a handler is past its
\* last fetch is the same as one right after the handler has finished.
Publish ==
    /\ op.pc \in {"idle", "install", "update"}
    /\ \E m \in RemoteManifests : m # remote /\ remote' = m
    /\ lastApplied' = FALSE
    /\ op' = [op EXCEPT !.afterApply = FALSE]
    /\ UNCHANGED <<batch, call, ui, disk, localManifest, offlineUpdateInfo>>

\* The app is killed (or crashes) and restarted: the handler in flight is
\* gone, the renderer state is fresh, the resource directory stays.
Crash ==
    /\ op.pc # "idle" \/ offlineUpdateInfo.present
    /\ op' = IdleOp
    /\ offlineUpdateInfo' = NoInfo
    /\ lastApplied' = FALSE
    /\ UNCHANGED <<batch, call, ui, remote, disk, localManifest>>

\* The caller receives the result of the handler.
Settle ==
    /\ op.pc = "done"
    /\ op' = IdleOp
    /\ UNCHANGED <<batch, call, ui, remote, disk, localManifest, offlineUpdateInfo, lastApplied>>

(***************************************************************************)
(* checkOfflinePackUpdate, invoked by handleCheckOfflineUpdate             *)
(***************************************************************************)
HandleCheckOfflineUpdate ==
    /\ op.pc = "idle"
    /\ \E fetched \in BOOLEAN :
         LET res == IF fetched THEN CheckResult(remote, disk, localManifest)
                    ELSE CheckResultUnavailable(disk, localManifest)
         IN /\ op' = [Start("check", "done") EXCEPT !.check = res]
            /\ offlineUpdateInfo' =
                   [present |-> TRUE,
                    needsUpdate |-> res.needsUpdate,
                    message |-> res.message]
    /\ UNCHANGED <<batch, call, ui, remote, disk, localManifest, lastApplied>>

(***************************************************************************)
(* IPC entry points: offline:install, offline:update                       *)
(***************************************************************************)
CallInstall ==
    /\ op.pc = "idle"
    /\ op' = Start("install", "install")
    /\ lastApplied' = FALSE
    /\ UNCHANGED <<batch, call, ui, remote, disk, localManifest, offlineUpdateInfo>>

CallUpdate ==
    /\ op.pc = "idle"
    /\ op' = Start("update", "update")
    /\ lastApplied' = FALSE
    /\ UNCHANGED <<batch, call, ui, remote, disk, localManifest, offlineUpdateInfo>>

(***************************************************************************)
(* installOfflineResources                                                 *)
(***************************************************************************)
\* Status check, early return, otherwise the manifest-based install is
\* tried first inside a try block.
InstallBody ==
    /\ op.pc = "install"
    /\ LET status == GetOfflineResourcesStatus(disk, localManifest)
       IN IF InstallEarlyReturn(status)
          THEN op' = Return(op, disk, localManifest)
          ELSE /\ op.frames < MaxDepth
               /\ op' = [op EXCEPT !.frames = @ + 1, !.pc = "update"]
    /\ UNCHANGED <<batch, call, ui, remote, disk, localManifest, offlineUpdateInfo, lastApplied>>

\* Legacy path: download the full pack archive, extract it in a temporary
\* directory and look for the top-level resources/ folder.
LegacyDownload ==
    /\ op.pc = "legacy"
    /\ \E outcome \in {"download-failed", "no-root", "complete", "incomplete"} :
         op' = CASE outcome = "download-failed" -> Throw(op, "DownloadFailed")
                 [] outcome = "no-root" ->
                        Throw([op EXCEPT !.packDownloaded = TRUE], "InvalidPackFormat")
                 [] OTHER ->
                        [op EXCEPT !.packDownloaded = TRUE, !.pack = outcome,
                                   !.pc = "legacy-rm"]
    /\ UNCHANGED <<batch, call, ui, remote, disk, localManifest, offlineUpdateInfo, lastApplied>>

\* fsp.rm(userDir, { recursive, force }) followed by mkdir: the directory is
\* emptied, the hidden local manifest included.
LegacyRemove ==
    /\ op.pc = "legacy-rm"
    /\ disk' = EmptyDisk
    /\ localManifest' = NoManifest
    /\ op' = [op EXCEPT !.pc = "legacy-cp", !.manifestTouched = TRUE]
    /\ UNCHANGED <<batch, call, ui, remote, offlineUpdateInfo, lastApplied>>

\* fsp.cp(extractedResources, userDir), chmod, return the new status.
LegacyCopy ==
    /\ op.pc = "legacy-cp"
    /\ disk' = PackDisk(op.pack)
    /\ op' = Return([op EXCEPT !.packInstalled = TRUE], disk', localManifest)
    /\ UNCHANGED <<batch, call, ui, remote, localManifest, offlineUpdateInfo, lastApplied>>

(***************************************************************************)
(* installOfflineResourcesFromZip                                          *)
(***************************************************************************)
CallInstallFromZip ==
    /\ op.pc = "idle"
    /\ \E zip \in {"invalid-path", "not-found", "no-root", "complete", "incomplete"} :
         op' = CASE zip = "invalid-path" ->
                        [Start("zip", "done") EXCEPT !.err = "InvalidZipPath"]
                 [] zip = "not-found" ->
                        [Start("zip", "done") EXCEPT !.err = "ZipNotFound"]
                 [] zip = "no-root" ->
                        [Start("zip", "done") EXCEPT !.err = "InvalidPackFormat"]
                 [] OTHER ->
                        [Start("zip", "legacy-rm") EXCEPT !.pack = zip]
    /\ lastApplied' = FALSE
    /\ UNCHANGED <<batch, call, ui, remote, disk, localManifest, offlineUpdateInfo>>

(***************************************************************************)
(* updateOfflineResources                                                  *)
(***************************************************************************)
\* Status, manifest fetch, component list; without components the call
\* hands over to installOfflineResources.
UpdateBody ==
    /\ op.pc = "update"
    /\ \E fetched \in BOOLEAN :
         IF ~fetched
         THEN op' = Throw(op, "ManifestUnavailable")
         ELSE IF ApplicableComponents(remote) = <<>>
         THEN op' = [op EXCEPT !.remote = remote, !.fallback = TRUE,
                               !.updated = TRUE, !.pc = "install"]
         ELSE op' = [op EXCEPT !.remote = remote, !.updated = TRUE,
                               !.i = 1, !.componentsInstalled = EmptyFn,
                               !.flagged = SeqRange(ComponentsToUpdate(
                                   ApplicableComponents(remote), localManifest)),
                               !.pc = "loop"]
    /\ UNCHANGED <<batch, call, ui, remote, disk, localManifest, offlineUpdateInfo, lastApplied>>

ManifestOnAbortPartial(o, lm) ==
    [exists |-> TRUE, version |-> OrNull(o.remote.version),
     components |-> o.componentsInstalled]

\* A failed download or extraction throws out of the loop: the function is
\* left before writeLocalManifest.
ManifestOnAbort(o, lm) == lm

\* One iteration of `for (const c of components)`: download (and extract)
\* the component into the resource directory and record it.
UpdateComponent ==
    /\ op.pc = "loop"
    /\ LET comps == ApplicableComponents(op.remote)
           c == comps[op.i]
       IN \E outcome \in {"ok", "corrupt", "failed"} :
            IF outcome = "failed"
            THEN /\ op' = Throw(op, "DownloadFailed")
                 /\ disk' = disk
                 /\ localManifest' = ManifestOnAbort(op, localManifest)
            ELSE LET content == IF outcome = "ok" THEN Served(c) ELSE "bad"
                 IN /\ disk' = [disk EXCEPT ![Target(c)] = content]
                    /\ localManifest' = localManifest
                    /\ op' = [op EXCEPT
                          !.downloaded = @ \cup {c.name},
                          !.mismatch = @ \/ (Truthy(c.sha256) /\ content # c.sha256),
                          !.componentsInstalled = (c.name :> Recorded(c)) @@ @,
                          !.i = @ + 1,
                          !.pc = IF op.i = Len(comps) THEN "commit" ELSE "loop"]
    /\ UNCHANGED <<batch, call, ui, remote, offlineUpdateInfo, lastApplied>>

\* chmod, writeLocalManifest, 'done' event, return the new status.
UpdateCommit ==
    /\ op.pc = "commit"
    /\ localManifest' = [exists |-> TRUE,
                         version |-> OrNull(op.remote.version),
                         components |-> op.componentsInstalled]
    /\ op' = Return([op EXCEPT !.manifestTouched = TRUE], disk, localManifest')
    /\ lastApplied' = (op.kind = "update" /\ op.remote = remote)
    /\ UNCHANGED <<batch, call, ui, remote, disk, offlineUpdateInfo>>

(***************************************************************************)
(* Specification                                                           *)
(***************************************************************************)
Next ==
    \/ Publish
    \/ Crash
    \/ Settle
    \/ HandleCheckOfflineUpdate
    \/ CallInstall
    \/ CallUpdate
    \/ CallInstallFromZip
    \/ InstallBody
    \/ LegacyDownload
    \/ LegacyRemove
    \/ LegacyCopy
    \/ UpdateBody
    \/ UpdateComponent
    \/ UpdateCommit

Spec == Init /\ [][Next]_vars

(***************************************************************************)
(* Renderer: what DesktopFilePicker derives from offlineUpdateInfo         *)
(***************************************************************************)
\* `offlineUpdateInfo.needsUpdate === false ? ' · Up to date' : ''`
ShowsUpToDate == offlineUpdateInfo.present /\ offlineUpdateInfo.needsUpdate = FALSE

\* The `offlineUpdateInfo?.needsUpdate === false` term of the Update button's
\* `disabled` attribute.
UpdateButtonBlocked == offlineUpdateInfo.present /\ offlineUpdateInfo.needsUpdate = FALSE

(***************************************************************************)
(* Properties                                                              *)
(***************************************************************************)
CheckDone == op.kind = "check" /\ op.pc = "done"

\* A remote component matches the local record: an entry under its name
\* with the same url, sha256 and version.
ComponentMatchesLocal(c, lm) ==
    /\ c.name \in DOMAIN lm.components
    /\ lm.components[c.name].name = c.name
    /\ lm.components[c.name].url = c.url
    /\ lm.components[c.name].sha256 = c.sha256
    /\ lm.components[c.name].version = c.version

\* Where a recorded component lives and what its artifact is.
RecordedTarget(r) == IF r.type = "zip" THEN LlamaPath ELSE r.path
RecordedArtifact(r) == IF r.sha256 = Null THEN "h0" ELSE r.sha256

\* C1: when the manifest was fetched, checkOfflinePackUpdate reports
\* needsUpdate = false if and only if every component applicable to the
\* current platform matches the local record on name, url, sha256, version.
C1_NoUpdateIffAllComponentsMatch ==
    (CheckDone /\ op.check.ok) =>
        (op.check.needsUpdate = FALSE
            <=> \A c \in SeqRange(ApplicableComponents(remote)) :
                    ComponentMatchesLocal(c, localManifest))

\* C2: an update is reported whenever the installed version differs from
\* the remote one or some component needs updating; a non-empty
\* componentsToUpdate never comes with needsUpdate = false.
C2_ChangedComponentMeansUpdate ==
    (CheckDone /\ op.check.ok) =>
        ((\/ op.check.installedVersion # op.check.latestVersion
          \/ op.check.componentsToUpdate # <<>>)
            => op.check.needsUpdate = TRUE)

\* C3: an update that directly follows a successful update, with the same
\* manifest still published, downloads no component.
C3_SecondApplyDownloadsNothing ==
    (op.kind = "update" /\ op.afterApply) => op.downloaded = {}

\* C4: with a local installation on record, an update downloads only the
\* components the update check flags, leaves the file of every other
\* component as it was, and the manifest it writes records the sha256 of
\* each component of the remote manifest.
C4_OnlyFlaggedComponentsDownloaded ==
    (op.kind = "update" /\ op.frames = 0 /\ op.pc \in {"loop", "commit", "done"}
        /\ ~op.fallback /\ op.preManifestExists) =>
        LET comps == ApplicableComponents(op.remote)
        IN /\ op.downloaded \subseteq op.flagged
           /\ \A c \in SeqRange(comps) :
                 c.name \notin op.flagged => disk[Target(c)] = op.preDisk[Target(c)]
           /\ (op.pc = "done" /\ op.err = "none") =>
                 \A c \in SeqRange(comps) :
                     /\ c.name \in DOMAIN localManifest.components
                     /\ localManifest.components[c.name].sha256 = OrNull(c.sha256)

\* C5: an update in which a downloaded component did not match the sha256
\* of its manifest entry ends with an error and without a manifest write.
C5_HashMismatchAbortsUpdate ==
    (op.kind = "update" /\ op.mismatch) =>
        /\ ~op.manifestTouched
        /\ op.pc = "done" => op.err # "none"

\* C6: in every reachable state (crashes between steps included) each
\* component the local manifest records is on disk as recorded.
C6_ManifestReflectsDisk ==
    localManifest.exists =>
        \A n \in DOMAIN localManifest.components :
            LET r == localManifest.components[n]
            IN disk[RecordedTarget(r)] = RecordedArtifact(r)

\* C7: after a check whose manifest fetch failed the renderer never shows
\* the pack as up to date and never blocks the update on that account.
C7_UnavailableIsNeverUpToDate ==
    (offlineUpdateInfo.present /\ offlineUpdateInfo.message # Undef) =>
        (~ShowsUpToDate /\ ~UpdateButtonBlocked)

\* C8: an update that finds no component for the platform in the manifest
\* it fetched (and in none it fetched later in the same call) and returns
\* normally has downloaded the full pack archive and installed it.
C8_NoComponentsMeansFullReinstall ==
    (op.kind = "update" /\ op.fallback /\ ApplicableComponents(op.remote) = <<>>
        /\ op.pc = "done" /\ op.err = "none") =>
        (op.packDownloaded /\ op.packInstalled)

\* C9: install() called while the model file and the inference binary are
\* both present returns the installed status at once: nothing is
\* downloaded and the resource directory and its manifest are untouched.
C9_InstallIsIdempotent ==
    (op.kind = "install" /\ op.preDisk[ModelPath] # NoFile
        /\ op.preDisk[LlamaPath] # NoFile) =>
        /\ op.pc \in {"install", "done"}
        /\ disk = op.preDisk
        /\ ~op.manifestTouched
        /\ op.downloaded = {}
        /\ ~op.packDownloaded
        /\ op.pc = "done" =>
              (op.err = "none" /\ op.status.installed /\ op.status.missing = {})

C9_Witness ==
    /\ op.kind = "install" /\ op.pc = "done"
    /\ op.preDisk[ModelPath] # NoFile /\ op.preDisk[LlamaPath] # NoFile

\* C10: install() and installFromZip() that fail because the archive lacks
\* the resources root leave the resource directory as it was at the call.
C10_InvalidPackLeavesDirectoryIntact ==
    (op.kind \in {"install", "zip"} /\ op.pc = "done"
        /\ op.err = "InvalidPackFormat") =>
        (disk = op.preDisk /\ ~op.manifestTouched)

(***************************************************************************)
(* Offline analysis: desktop-app/src/offline/offlineAnalyzer.js (current   *)
(* version), offline/llamaRunner.js, offline/reportSchema.js and the       *)
(* analysis:analyzePdfPaths handler of desktop-app/src/main.js.            *)
(*                                                                         *)
(* A page list is the sequence of the lengths of the pages' texts: the     *)
(* extractor numbers the pages 1..n and returns each text trimmed, so a    *)
(* page is non-empty exactly when its length is positive.  A prompt is     *)
(* the pieces it is concatenated from: the characters kept from the head   *)
(* of the assembled text, the inserted marker if any, and the characters   *)
(* kept from its tail ("" for the marker when none is inserted).           *)
(***************************************************************************)
MaxFiles == 2
MaxPages == 2
MaxOpps == 1

APPROX_CHARS_PER_TOKEN == 4
DEFAULT_CTX_SIZE == 4096
DEFAULT_N_PREDICT == 1536
SAFETY_TOKENS == 256
MinPromptTokens == 512
MinTextChars == 500

\* header.length: the 55 instruction lines joined by "\n".
HeaderLen == 1771
\* "\n--- PAGE " and " ---\n" around the page number.
PageMarkLen == 15
\* the marker put between head and tail, and the length of
\* "\n\n[TRUNCATED TO FIT CONTEXT]\n\n"
TruncationMarker == "[TRUNCATED TO FIT CONTEXT]"
MarkerLen == 30

Max(a, b) == IF a >= b THEN a ELSE b

RECURSIVE Digits(_)
Digits(n) == IF n < 10 THEN 1 ELSE 1 + Digits(n \div 10)

RECURSIVE SumLen(_, _)
SumLen(pages, k) ==
    IF k = 0 THEN 0
    ELSE SumLen(pages, k - 1) + PageMarkLen + Digits(k) + pages[k]

\* full.length
FullLen(pages) == HeaderLen + SumLen(pages, Len(pages))

MaxPromptTokensWithoutMargin(ctxSize, nPredict) ==
    Max(MinPromptTokens, ctxSize - nPredict)

MaxPromptTokens(ctxSize, nPredict) ==
    Max(MinPromptTokens, ctxSize - nPredict - SAFETY_TOKENS)

MaxPromptChars(ctxSize, nPredict) ==
    MaxPromptTokens(ctxSize, nPredict) * APPROX_CHARS_PER_TOKEN

\* Math.floor(maxPromptChars * 0.7) and Math.floor(maxPromptChars * 0.3)
HeadChars(m) == (m * 7) \div 10
TailChars(m) == (m * 3) \div 10

FitsStrictly(full, m) == full < m

Fits(full, m) == full <= m

BuildPrompt(pages, ctxSize, nPredict) ==
    LET full == FullLen(pages)
        m == MaxPromptChars(ctxSize, nPredict)
    IN  IF Fits(full, m)
        THEN [head |-> full, marker |-> "", tail |-> 0]
        ELSE [head |-> HeadChars(m), marker |-> TruncationMarker,
              tail |-> TailChars(m)]

\* prompt.length
PromptLen(pr) == pr.head + (IF pr.marker # "" THEN MarkerLen ELSE 0) + pr.tail

\* Text lengths of a page: none, short, the length that makes a one-page
\* prompt exactly as long as the default budget, one more, and a long page.
ExactFit ==
    MaxPromptChars(DEFAULT_CTX_SIZE, DEFAULT_N_PREDICT)
        - HeaderLen - PageMarkLen - 1
TextLens == {0, 200, ExactFit, ExactFit + 1, 12000}

PageLists == UNION { [1..n -> TextLens] : n \in 0..MaxPages }

\* The documents of a batch: pages without text, with little text, and
\* with more text than the prompt can take.
DocTextLens == {0, 200, 12000}
Documents == UNION { [1..n -> DocTextLens] : n \in 0..MaxPages }

RECURSIVE SumText(_, _)
SumText(pages, k) == IF k = 0 THEN 0 ELSE SumText(pages, k - 1) + pages[k]

TotalChars(pages) == SumText(pages, Len(pages))

NonEmptyPages(pages) == Cardinality({ k \in 1..Len(pages) : pages[k] > 0 })

ImageOnlyByChars(pages) == TotalChars(pages) > MinTextChars

ImageOnly(pages) == NonEmptyPages(pages) = 0 \/ TotalChars(pages) < MinTextChars

(***************************************************************************)
(* reportSchema.js.  A JSON number is kept in tenths so that a non-integer *)
(* value can be told from an integer one; other JSON values by their type. *)
(***************************************************************************)
JNum(t) == [type |-> "number", tenths |-> t]
JOther(ty) == [type |-> ty, tenths |-> 0]

PageNumberValues ==
    {JNum(10), JNum(30), JNum(0), JNum(15), JOther("string")}

Levels == {"Low", "Medium", "High"}

Opportunities ==
    [pageNumber : PageNumberValues,
     implementationComplexity : {"Low", "Extreme"},
     roiPotential : {"High"}]

\* What JSON.parse can return: a list of opportunities under top-level
\* fields that are all present and well-typed, or a document that lacks one
\* of them.
ParsedData ==
    [topLevel : {"complete"},
     automationOpportunities :
        UNION { [1..n -> Opportunities] : n \in 0..MaxOpps }]
        \cup {[topLevel |-> "incomplete", automationOpportunities |-> <<>>]}

\* z.number().int().positive()
PositiveInt(v) == v.type = "number" /\ v.tenths % 10 = 0 /\ v.tenths > 0

OpportunityValidAnyLevel(o) == PositiveInt(o.pageNumber)

\* AutomationOpportunitySchema
OpportunityValid(o) ==
    /\ PositiveInt(o.pageNumber)
    /\ o.implementationComplexity \in Levels
    /\ o.roiPotential \in Levels

\* AnalysisReportSchema.safeParse(data).success
SchemaValid(data) ==
    /\ data.topLevel = "complete"
    /\ \A k \in 1..Len(data.automationOpportunities) :
            OpportunityValid(data.automationOpportunities[k])

(***************************************************************************)
(* llamaRunner.js: runLlamaCli.  An exit code is the decimal numeral of    *)
(* the number node passes to the close handler (null when the child was    *)
(* ended by a signal).                                                     *)
(***************************************************************************)
Platforms == {"win32", "darwin"}
STATUS_DLL_NOT_FOUND == "3221225781"
ExitCodes == {"0", "1", STATUS_DLL_NOT_FOUND, Null}
StderrTexts == {"", "ggml error"}

\* A thrown Error: what failed and, where the message depends on it, the
\* exit code and stderr text or the advice the message closes with.
NoError == [kind |-> "none", code |-> Null, stderr |-> "", advice |-> "none"]
Err(kind) == [kind |-> kind, code |-> Null, stderr |-> "", advice |-> "none"]

InsufficientTextAdvisesInstall(ocrAvailable) ==
    [Err("extraction-insufficient") EXCEPT !.advice = "install-ocr"]

\* The error of the second test of the text: `next` is chosen by ocrAvailable.
InsufficientText(ocrAvailable) ==
    [Err("extraction-insufficient") EXCEPT
        !.advice = IF ocrAvailable THEN "ocr-attempted" ELSE "install-ocr"]

IsMissingDllAnyPlatform(platform, code) == code = STATUS_DLL_NOT_FOUND

IsMissingDll(platform, code) ==
    platform = "win32" /\ code = STATUS_DLL_NOT_FOUND

\* child.on('close'): the settlement of the promise of runLlamaCli
CloseOutcome(platform, code, stdout, stderr) ==
    IF code = "0"
    THEN [resolved |-> TRUE, stdout |-> stdout, error |-> NoError]
    ELSE IF IsMissingDll(platform, code)
    THEN [resolved |-> FALSE, stdout |-> Null, error |-> Err("missing-dll")]
    ELSE [resolved |-> FALSE, stdout |-> Null,
          error |-> [kind |-> "exited", code |-> code, stderr |-> stderr,
                     advice |-> "none"]]

ConfiguredWithoutModel(llamaBin, modelExists) == llamaBin

\* both checks of runLlamaCli passed
Configured(llamaBin, modelExists) == llamaBin /\ modelExists

(***************************************************************************)
(* main.js: ipcMain.handle('analysis:analyzePdfPaths') and, for the file   *)
(* the loop is at, analyzePdfAtPath with the runLlamaJson call it makes.   *)
(***************************************************************************)
FilePathValues == {"a.pdf", ""}
PathLists == UNION { [1..n -> FilePathValues] : n \in 0..MaxFiles }

\* typeof filePath === 'string' && filePath.length > 0
ValidPath(fp) == fp # ""

NoData == [topLevel |-> "none", automationOpportunities |-> <<>>]
NoStdout == [kind |-> "none", data |-> NoData]
Stdouts ==
    [kind : {"prose", "broken"}, data : {NoData}]
        \cup [kind : {"json"}, data : ParsedData]
NoPrompt == [head |-> 0, marker |-> "", tail |-> 0]

\* analyzePdfAtPath not entered for the file the loop is at
NoPipeline ==
    [pc |-> "none", pages |-> <<>>, zeroText |-> FALSE,
     ocr |-> "unprobed", prompt |-> NoPrompt, modelInvoked |-> FALSE,
     resolved |-> FALSE, llamaBin |-> FALSE, modelExists |-> FALSE,
     promptWritten |-> FALSE, spawned |-> FALSE, exit |-> "none",
     stdout |-> NoStdout, stderr |-> "", raw |-> NoStdout, pageCount |-> 0,
     returned |-> NoData, thrown |-> NoError, emitted |-> <<>>, elapsed |-> 0]

(***************************************************************************)
(* Progress events.  `emitted` holds the events the step just taken handed *)
(* to onProgress, in order; `elapsed` is the whole number of seconds since *)
(* the child was spawned at the last tick of the progress timer.           *)
(***************************************************************************)
Min(a, b) == IF a <= b THEN a ELSE b

Event(stage, percent) == [stage |-> stage, percent |-> percent]

\* what extractPdfPagesText reports per page: 'extracting' in one version
\* of pdfTextExtractor.js, 'extract' in the other
ExtractorStages == {"extracting", "extract"}

\* the onProgress handed to extractPdfPagesText, called once per page:
\* base + Math.round((pageNumber / totalPages) * span)
ExtractingEvents(stage, n, base, span) ==
    IF stage # "extracting" THEN <<>>
    ELSE [k \in 1..n |->
            Event("extracting", base + (2 * k * span + n) \div (2 * n))]

\* runLlamaCli's timer: 35 + Math.min(60, (elapsedSec / 120) * 60), kept in
\* hundredths of a percent
RampPercent(elapsedSec) == 3500 + Min(6000, 50 * elapsedSec)

\* the onProgress handed to runLlamaJson:
\* 60 + Math.round((clamp(0, 99, modelPct) / 100) * 35), at most 95
ModelEvent(hundredths) ==
    LET clamped == Max(0, Min(9900, hundredths))
    IN  Event("model", Min(95, 60 + (clamped * 35 + 5000) \div 10000))

TickTimes == {1, 61, 200}

ValidationEventsAlwaysDone(valid) ==
    <<Event("parsing", 96), Event("done", 100)>>

\* emit 'parsing', safeParse, and emit 'done' when it succeeded
ValidationEvents(valid) ==
    IF valid THEN <<Event("parsing", 96), Event("done", 100)>>
    ELSE <<Event("parsing", 96)>>

Emit(b, events) == [b EXCEPT !.p.emitted = events]

IdleBatch(platform) ==
    [bpc |-> "idle", platform |-> platform, filePaths |-> <<>>, i |-> 0,
     out |-> <<>>, running |-> {}, started |-> {}, children |-> 0,
     p |-> NoPipeline]

\* An entry of `out`: the report and the wording of the message are left
\* with the call that produced them (p.returned, p.thrown).
ErrorResult(fp, kind) == [ok |-> FALSE, filePath |-> fp, error |-> kind]

OkResult(fp) == [ok |-> TRUE, filePath |-> fp, error |-> "none"]

LoopMayAdvanceUnawaited(b) == TRUE

\* `await analyzePdfAtPath(...)`: the loop body resumes when the promise of
\* the file it is at has settled.
LoopMayAdvance(b) == b.running = {}

NextAfterRethrow(result) == IF result.ok THEN "loop" ELSE "done"

\* try { ... out.push(ok) } catch (e) { out.push(error) }: the loop goes on
NextAfter(result) == "loop"

\* analyzePdfAtPath settles and the handler pushes the file's result; the
\* locals of the call are gone, what the call did stays on record
Settled(b, result) ==
    [b EXCEPT !.running = @ \ {b.i},
              !.out = Append(@, result),
              !.bpc = NextAfter(result),
              !.p.pc = "none",
              !.p.pages = <<>>,
              !.p.prompt = NoPrompt,
              !.p.stdout = NoStdout,
              !.p.raw = NoStdout]

FailedButContinues(b, e) == [b EXCEPT !.p.thrown = e]

\* analyzePdfAtPath throws e
Failed(b, e) ==
    [Settled(b, ErrorResult(b.filePaths[b.i], e.kind)) EXCEPT !.p.thrown = e]

\* analyzePdfAtPath returns parsed.data
Returned(b, report) ==
    [Settled(b, OkResult(b.filePaths[b.i])) EXCEPT !.p.returned = report]

InitAnalysis ==
    /\ remote = BaseManifest
    /\ disk = EmptyDisk
    /\ localManifest = NoManifest
    /\ op = IdleOp
    /\ offlineUpdateInfo = NoInfo
    /\ lastApplied = FALSE
    /\ batch \in { IdleBatch(pl) : pl \in Platforms }
    /\ call = NoCall
    /\ ui = NoUi

\* the renderer invokes analysis:analyzePdfPaths
AnalyzePdfPaths ==
    /\ batch.bpc = "idle"
    /\ \E paths \in PathLists :
        batch' = [batch EXCEPT !.bpc = "loop", !.filePaths = paths]
    /\ UNCHANGED <<packVars, call, ui>>

\* one iteration of the for loop up to its await
LoopStep ==
    /\ batch.bpc = "loop"
    /\ LoopMayAdvance(batch)
    /\ batch.i < Len(batch.filePaths)
    /\ LET k == batch.i + 1
           fp == batch.filePaths[k]
       IN  IF ~ValidPath(fp)
           THEN batch' = [batch EXCEPT
                    !.i = k,
                    !.out = Append(@, ErrorResult(fp, "invalid-path"))]
           ELSE batch' = [batch EXCEPT
                    !.i = k,
                    !.running = @ \cup {k},
                    !.started = @ \cup {k},
                    !.p = [NoPipeline EXCEPT
                              !.pc = "extract",
                              !.emitted = <<Event("starting", 0)>>]]
    /\ UNCHANGED <<packVars, call, ui>>

\* after the loop: send 'done', return out
LoopDone ==
    /\ batch.bpc = "loop"
    /\ LoopMayAdvance(batch)
    /\ batch.i = Len(batch.filePaths)
    /\ batch' = [batch EXCEPT !.bpc = "done"]
    /\ UNCHANGED <<packVars, call, ui>>

\* await extractPdfPagesText(filePath)
ExtractText ==
    /\ batch.p.pc = "extract"
    /\ \/ batch' = Failed(Emit(batch, <<>>), Err("extract-failed"))
       \/ \E pages \in Documents, stage \in ExtractorStages :
            batch' = [batch EXCEPT
                !.p.pages = pages,
                !.p.emitted = ExtractingEvents(stage, Len(pages), 0, 30),
                !.p.zeroText = (NonEmptyPages(pages) = 0),
                !.p.pc = IF ImageOnly(pages) THEN "probe" ELSE "prompt"]
    /\ UNCHANGED <<packVars, call, ui>>

\* await hasOcrMyPdf(); without the tool the second test of the text fails
ProbeOcr ==
    /\ batch.p.pc = "probe"
    /\ \E ocrAvailable \in BOOLEAN :
        IF ocrAvailable
        THEN batch' = [batch EXCEPT !.p.ocr = "available", !.p.pc = "ocr",
                                    !.p.emitted = <<Event("ocr", 35)>>]
        ELSE LET b == [batch EXCEPT !.p.ocr = "unavailable",
                                    !.p.emitted = <<>>]
             IN  IF ImageOnly(b.p.pages)
                 THEN batch' = Failed(b, InsufficientText(b.p.ocr = "available"))
                 ELSE batch' = [b EXCEPT !.p.pc = "prompt"]
    /\ UNCHANGED <<packVars, call, ui>>

\* await ocrToSearchablePdfBestEffort(filePath): a path, or null
RunOcr ==
    /\ batch.p.pc = "ocr"
    /\ \E ocrPdfPath \in {"ocr.pdf", Null} :
        LET b == Emit(batch, <<>>)
        IN  IF ocrPdfPath # Null
            THEN batch' = [b EXCEPT !.p.pc = "reextract"]
            ELSE IF ImageOnly(b.p.pages)
                 THEN batch' = Failed(b, InsufficientText(b.p.ocr = "available"))
                 ELSE batch' = [b EXCEPT !.p.pc = "prompt"]
    /\ UNCHANGED <<packVars, call, ui>>

\* await extractPdfPagesText(ocrPdfPath), then the second test of the text
ReExtract ==
    /\ batch.p.pc = "reextract"
    /\ \/ batch' = Failed(Emit(batch, <<>>), Err("extract-failed"))
       \/ \E pages \in Documents, stage \in ExtractorStages :
            LET b == [batch EXCEPT
                        !.p.pages = pages,
                        !.p.emitted =
                            ExtractingEvents(stage, Len(pages), 35, 15)]
            IN  IF ImageOnly(pages)
                THEN batch' = Failed(b, InsufficientText(b.p.ocr = "available"))
                ELSE batch' = [b EXCEPT !.p.pc = "prompt"]
    /\ UNCHANGED <<packVars, call, ui>>

\* buildPrompt({ pages }), runLlamaJson -> runLlamaCli up to its first await;
\* pages is not read again, its length stays on record
BuildAndResolve ==
    /\ batch.p.pc = "prompt"
    /\ \E llamaBin \in BOOLEAN, modelExists \in BOOLEAN :
        LET b == [batch EXCEPT
                    !.p.prompt = BuildPrompt(batch.p.pages, DEFAULT_CTX_SIZE,
                                             DEFAULT_N_PREDICT),
                    !.p.pageCount = Len(batch.p.pages),
                    !.p.pages = <<>>,
                    !.p.emitted = <<Event("prompt", 55), Event("model", 60)>>,
                    !.p.modelInvoked = TRUE,
                    !.p.resolved = TRUE,
                    !.p.llamaBin = llamaBin,
                    !.p.modelExists = modelExists]
        IN  IF Configured(llamaBin, modelExists)
            THEN batch' = [b EXCEPT !.p.pc = "write"]
            ELSE batch' = Failed(b, Err(IF ~llamaBin THEN "missing-binary"
                                        ELSE "missing-model"))
    /\ UNCHANGED <<packVars, call, ui>>

\* await fsp.mkdtemp(...); await fsp.writeFile(promptPath, prompt)
WritePrompt ==
    /\ batch.p.pc = "write"
    /\ \/ batch' = [batch EXCEPT !.p.promptWritten = TRUE,
                                 !.p.prompt = NoPrompt,
                                 !.p.emitted = <<>>,
                                 !.p.pc = "spawn"]
       \/ batch' = Failed(Emit(batch, <<>>), Err("io"))
    /\ UNCHANGED <<packVars, call, ui>>

\* spawn(llamaBin, args): a child runs, or the 'error' event rejects
SpawnChild ==
    /\ batch.p.pc = "spawn"
    /\ \/ batch' = [batch EXCEPT !.p.spawned = TRUE,
                                 !.children = @ + 1,
                                 !.p.pc = "child"]
       \/ batch' = Failed([batch EXCEPT !.p.spawned = TRUE], Err("spawn-error"))
    /\ UNCHANGED <<packVars, call, ui>>

\* the setInterval callback of runLlamaCli while the child runs
ProgressTick ==
    /\ batch.p.pc = "child"
    /\ \E t \in TickTimes :
        /\ t > batch.p.elapsed
        /\ batch' = [batch EXCEPT
                !.p.elapsed = t,
                !.p.emitted = <<ModelEvent(RampPercent(t))>>]
    /\ UNCHANGED <<packVars, call, ui>>

\* child.on('close', code): clearInterval, then resolve or reject
ChildClose ==
    /\ batch.p.pc = "child"
    /\ \E code \in ExitCodes, stderr \in StderrTexts :
       \E stdout \in IF code = "0" THEN Stdouts ELSE {NoStdout} :
        LET o == CloseOutcome(batch.platform, code, stdout, stderr)
            b == [batch EXCEPT !.children = @ - 1,
                               !.p.emitted = <<>>,
                               !.p.elapsed = 0,
                               !.p.exit = code,
                               !.p.stdout = stdout,
                               !.p.stderr = stderr]
        IN  IF o.resolved
            THEN batch' = [b EXCEPT !.p.raw = o.stdout, !.p.pc = "json"]
            ELSE batch' = Failed(b, o.error)
    /\ UNCHANGED <<packVars, call, ui>>

\* runLlamaJson: extractJsonObject, JSON.parse; analyzePdfAtPath: safeParse
ParseAndValidate ==
    /\ batch.p.pc = "json"
    /\ LET raw == batch.p.raw
       IN  IF raw.kind = "prose"
           THEN batch' = Failed(batch, Err("no-json-object"))
           ELSE IF raw.kind = "broken"
           THEN batch' = Failed(batch, Err("json-parse"))
           ELSE LET b == Emit(batch, ValidationEvents(SchemaValid(raw.data)))
                IN  IF SchemaValid(raw.data)
                    THEN batch' = Returned(b, raw.data)
                    ELSE batch' = Failed(b, Err("schema"))
    /\ UNCHANGED <<packVars, call, ui>>

NextAnalysis ==
    \/ AnalyzePdfPaths
    \/ LoopStep
    \/ LoopDone
    \/ ExtractText
    \/ ProbeOcr
    \/ RunOcr
    \/ ReExtract
    \/ BuildAndResolve
    \/ WritePrompt
    \/ SpawnChild
    \/ ProgressTick
    \/ ChildClose
    \/ ParseAndValidate

SpecAnalysis == InitAnalysis /\ [][NextAnalysis]_vars

(***************************************************************************)
(* Properties of the analysis batch, checked under SpecAnalysis            *)
(***************************************************************************)
ValidIndices == { k \in 1..Len(batch.filePaths) : ValidPath(batch.filePaths[k]) }

\* C11: a batch is processed strictly sequentially: at most one file's
\* pipeline and at most one inference subprocess are active at any moment,
\* the active pipeline is that of the file the loop is at, and it started
\* only after every earlier file had its result.
C11_BatchIsSequential ==
    /\ Cardinality(batch.running) <= 1
    /\ batch.children <= 1
    /\ batch.running \subseteq {batch.i}
    /\ \A k \in batch.running : Len(batch.out) = k - 1
    /\ (batch.children > 0 \/ batch.p.pc # "none") => batch.running = {batch.i}

C11_Witness ==
    /\ batch.i = 2
    /\ batch.started = {1, 2}
    /\ batch.running = {2}
    /\ batch.children = 1
    /\ Len(batch.out) = 1

\* C12: the batch returns exactly one result per input path, in input
\* order; an invalid path or a failing pipeline yields an error result for
\* that file only, and the pipeline of every later valid path is still
\* started.
C12_OneResultPerFileInOrder ==
    /\ Len(batch.out) <= batch.i
    /\ \A k \in 1..Len(batch.out) :
        /\ batch.out[k].filePath = batch.filePaths[k]
        /\ batch.out[k].ok = (batch.out[k].error = "none")
        /\ IF ValidPath(batch.filePaths[k])
           THEN k \in batch.started /\ batch.out[k].error # "invalid-path"
           ELSE k \notin batch.started /\ batch.out[k].error = "invalid-path"
    /\ (batch.p.pc = "none" /\ batch.i \in ValidIndices) =>
        /\ Len(batch.out) = batch.i
        /\ batch.out[batch.i].error = batch.p.thrown.kind
        /\ batch.out[batch.i].ok = (batch.p.returned # NoData)
    /\ batch.bpc = "done" =>
        /\ Len(batch.out) = Len(batch.filePaths)
        /\ batch.started = ValidIndices

C12_Witness ==
    /\ batch.bpc = "done"
    /\ Len(batch.out) = 2
    /\ batch.out[1].error = "schema"
    /\ batch.out[2].ok

\* C13: when the extraction yields no page with text and no OCR tool is
\* found, analyzePdfAtPath throws the extraction-insufficient error; the
\* model is never invoked for the file and no report is returned.
C13_NoTextNoOcrFails ==
    (batch.p.zeroText /\ batch.p.ocr # "available") =>
        /\ ~batch.p.modelInvoked
        /\ ~batch.p.promptWritten
        /\ ~batch.p.spawned
        /\ batch.p.returned = NoData
        /\ \/ batch.p.pc = "probe"
           \/ /\ batch.p.pc = "none"
              /\ batch.p.ocr = "unavailable"
              /\ batch.p.thrown.kind = "extraction-insufficient"

C13_Witness ==
    /\ batch.p.zeroText
    /\ batch.p.ocr = "unavailable"
    /\ batch.p.pc = "none"
    /\ batch.p.thrown.kind = "extraction-insufficient"
    /\ ~batch.out[batch.i].ok

\* C17: every report returned by analyzePdfAtPath cites, in each
\* automation opportunity, an integer page number that is at least 1 and
\* at most the number of pages extracted from the document.
C17_PageNumbersWithinDocument ==
    \A k \in 1..Len(batch.p.returned.automationOpportunities) :
        LET n == batch.p.returned.automationOpportunities[k].pageNumber
        IN  /\ n.type = "number"
            /\ n.tenths % 10 = 0
            /\ n.tenths >= 10
            /\ n.tenths <= 10 * batch.p.pageCount

\* The schema as the specification states it.
MeetsStatedSchema(d) ==
    /\ d.topLevel = "complete"
    /\ \A k \in 1..Len(d.automationOpportunities) :
        LET o == d.automationOpportunities[k]
        IN  /\ o.implementationComplexity \in {"Low", "Medium", "High"}
            /\ o.roiPotential \in {"Low", "Medium", "High"}
            /\ o.pageNumber.type = "number"
            /\ o.pageNumber.tenths % 10 = 0
            /\ o.pageNumber.tenths > 0

\* C18: a report is returned only if the parsed model output has every
\* required field, complexity and ROI values in {Low, Medium, High} and
\* positive integer page numbers, and then it is that output unchanged;
\* any other parsed output makes analyzePdfAtPath throw the schema error.
C18_OnlyValidReportsReturned ==
    [][ /\ (batch'.p.returned # NoData /\ batch'.p.returned # batch.p.returned)
            => /\ batch.p.pc = "json"
               /\ batch.p.raw.kind = "json"
               /\ MeetsStatedSchema(batch.p.raw.data)
        /\ (batch.p.pc = "json" /\ batch.p.raw.kind = "json")
            => IF MeetsStatedSchema(batch.p.raw.data)
               THEN /\ batch'.p.returned = batch.p.raw.data
                    /\ batch'.out[batch.i].ok
               ELSE /\ batch'.p.returned = NoData
                    /\ batch'.p.thrown.kind = "schema"
                    /\ ~batch'.out[batch.i].ok ]_vars

C18_Witness ==
    /\ batch.p.returned # NoData
    /\ Len(batch.p.returned.automationOpportunities) > 0
    /\ batch.out[1].error = "schema"

\* C19: when the inference binary or the model file is missing, runLlamaCli
\* throws a configuration error with no prompt file written and no
\* subprocess spawned.
C19_MissingResourceFailsBeforeSpawn ==
    (batch.p.resolved /\ ~(batch.p.llamaBin /\ batch.p.modelExists)) =>
        /\ batch.p.pc = "none"
        /\ batch.p.thrown.kind
             = (IF ~batch.p.llamaBin THEN "missing-binary" ELSE "missing-model")
        /\ ~batch.p.promptWritten
        /\ ~batch.p.spawned
        /\ batch.children = 0
        /\ batch.p.returned = NoData

C19_Witness ==
    /\ batch.p.resolved
    /\ batch.p.llamaBin
    /\ ~batch.p.modelExists
    /\ batch.p.thrown.kind = "missing-model"

\* C20: exit code 0 resolves with the captured stdout; on Windows the exit
\* code 3221225781 rejects with the missing-DLL message; every other exit
\* rejects with an error carrying the exit code and the captured stderr;
\* the missing-DLL message is produced for no other code or platform.
C20_ExitCodeMapping ==
    /\ batch.p.exit = "0" =>
        /\ batch.p.thrown.kind \notin {"missing-dll", "exited"}
        /\ batch.p.pc = "json" =>
              batch.p.raw = batch.p.stdout /\ batch.p.stdout.kind # "none"
    /\ batch.p.exit \notin {"none", "0"} =>
        /\ batch.p.pc = "none"
        /\ batch.p.returned = NoData
        /\ IF batch.platform = "win32" /\ batch.p.exit = "3221225781"
           THEN batch.p.thrown.kind = "missing-dll"
           ELSE batch.p.thrown = [kind |-> "exited", code |-> batch.p.exit,
                                  stderr |-> batch.p.stderr,
                                  advice |-> "none"]
    /\ batch.p.thrown.kind = "missing-dll" =>
        batch.platform = "win32" /\ batch.p.exit = "3221225781"
    /\ batch.p.thrown.kind = "exited" => batch.p.exit \notin {"none", "0"}

C20_Witness ==
    /\ batch.platform = "win32"
    /\ batch.p.exit = "3221225781"
    /\ batch.p.thrown.kind = "missing-dll"
    /\ ~batch.out[batch.i].ok

(***************************************************************************)
(* buildPrompt as a function of its arguments                              *)
(***************************************************************************)
CtxSizes == {2048, DEFAULT_CTX_SIZE, 8192}
PredictSizes == {512, DEFAULT_N_PREDICT}

InitPrompt ==
    /\ remote = BaseManifest
    /\ disk = EmptyDisk
    /\ localManifest = NoManifest
    /\ op = IdleOp
    /\ offlineUpdateInfo = NoInfo
    /\ lastApplied = FALSE
    /\ batch = NoBatch
    /\ ui = NoUi
    /\ call \in [fn : {"buildPrompt"}, pages : PageLists, ctxSize : CtxSizes,
                 nPredict : PredictSizes, applied : {FALSE}, out : {NoPrompt}]

CallBuildPrompt ==
    /\ call.fn = "buildPrompt"
    /\ ~call.applied
    /\ call' = [call EXCEPT
            !.applied = TRUE,
            !.out = BuildPrompt(call.pages, call.ctxSize, call.nPredict)]
    /\ UNCHANGED <<packVars, batch, ui>>

NextPrompt == CallBuildPrompt

SpecPrompt == InitPrompt /\ [][NextPrompt]_vars

\* the character budget as the specification states it
StatedBudget ==
    LET t == call.ctxSize - call.nPredict - 256
    IN  4 * (IF t > 512 THEN t ELSE 512)

\* C14: the string returned by buildPrompt is never longer than
\* 4 * max(512, ctxSize - predictTokens - safetyMargin) characters.
C14_PromptWithinBudget ==
    call.applied => PromptLen(call.out) <= StatedBudget

MaxTextLen == 7

Fence == "FENCE"
Chars == {"{", "}", "\"", "\\", Fence}
Texts == UNION { [1..n -> Chars] : n \in 0..MaxTextLen }

\* 1-based String.prototype.indexOf / lastIndexOf, 0 when absent
IndexOf(src, ch) ==
    LET at == { k \in 1..Len(src) : src[k] = ch }
    IN  IF at = {} THEN 0 ELSE CHOOSE k \in at : \A j \in at : k <= j

LastIndexOfAsFirst(src, ch) == IndexOf(src, ch)

LastIndexOf(src, ch) ==
    LET at == { k \in 1..Len(src) : src[k] = ch }
    IN  IF at = {} THEN 0 ELSE CHOOSE k \in at : \A j \in at : k >= j

\* fenceMatch ? fenceMatch[1] : text -- the text between the first fence
\* and the next one
FenceStrip(text) ==
    LET at == { k \in 1..Len(text) : text[k] = Fence }
    IN  IF Cardinality(at) < 2 THEN text
        ELSE LET f1 == CHOOSE k \in at : \A j \in at : k <= j
                 f2 == CHOOSE k \in at \ {f1} : \A j \in at \ {f1} : k <= j
             IN  SubSeq(text, f1 + 1, f2 - 1)

IsEscapeNever(ch) == FALSE

IsEscape(ch) == ch = "\\"

\* the for loop: the index at which it returns, 0 when it runs off the end
RECURSIVE Scan(_, _, _, _, _)
Scan(src, i, depth, inString, escaped) ==
    IF i > Len(src) THEN 0
    ELSE LET ch == src[i]
         IN  IF inString
             THEN IF escaped THEN Scan(src, i + 1, depth, TRUE, FALSE)
                  ELSE IF IsEscape(ch) THEN Scan(src, i + 1, depth, TRUE, TRUE)
                  ELSE IF ch = "\"" THEN Scan(src, i + 1, depth, FALSE, FALSE)
                  ELSE Scan(src, i + 1, depth, TRUE, FALSE)
             ELSE IF ch = "\"" THEN Scan(src, i + 1, depth, TRUE, escaped)
             ELSE LET d == depth + (IF ch = "{" THEN 1 ELSE 0)
                                 - (IF ch = "}" THEN 1 ELSE 0)
                  IN  IF d = 0 THEN i
                      ELSE Scan(src, i + 1, d, FALSE, escaped)

NoExtract == [ok |-> FALSE, json |-> <<>>, error |-> "none"]

ExtractJsonObject(text) ==
    LET source == FenceStrip(text)
        start == IndexOf(source, "{")
    IN  IF start = 0
        THEN [ok |-> FALSE, json |-> <<>>, error |-> "no-object"]
        ELSE LET end == Scan(source, start, 0, FALSE, FALSE)
                 last == LastIndexOf(source, "}")
             IN  IF end # 0
                 THEN [ok |-> TRUE, json |-> SubSeq(source, start, end),
                       error |-> "none"]
                 ELSE IF last # 0 /\ last > start
                 THEN [ok |-> TRUE, json |-> SubSeq(source, start, last),
                       error |-> "none"]
                 ELSE [ok |-> FALSE, json |-> <<>>, error |-> "incomplete"]

InitJson ==
    /\ remote = BaseManifest
    /\ disk = EmptyDisk
    /\ localManifest = NoManifest
    /\ op = IdleOp
    /\ offlineUpdateInfo = NoInfo
    /\ lastApplied = FALSE
    /\ batch = NoBatch
    /\ ui = NoUi
    /\ call \in [fn : {"extractJsonObject"}, text : Texts, applied : {FALSE},
                 out : {NoExtract}]

CallExtractJsonObject ==
    /\ call.fn = "extractJsonObject"
    /\ ~call.applied
    /\ call' = [call EXCEPT !.applied = TRUE,
                            !.out = ExtractJsonObject(call.text)]
    /\ UNCHANGED <<packVars, batch, ui>>

NextJson == CallExtractJsonObject

SpecJson == InitJson /\ [][NextJson]_vars

\* Where position j of src lies when the text is read as JSON from position
\* start: outside any string literal ("out"), inside one ("in"), or right
\* after a backslash inside one ("esc").
RECURSIVE Lexical(_, _, _)
Lexical(src, start, j) ==
    IF j = start THEN "out"
    ELSE LET before == Lexical(src, start, j - 1)
             c == src[j - 1]
         IN  CASE before = "out" -> IF c = "\"" THEN "in" ELSE "out"
               [] before = "in" -> IF c = "\\" THEN "esc"
                                   ELSE IF c = "\"" THEN "out" ELSE "in"
               [] before = "esc" -> "in"

\* braces opened minus braces closed in start..j, string contents aside
Balance(src, start, j) ==
    Cardinality({ k \in start..j : Lexical(src, start, k) = "out" /\ src[k] = "{" })
        - Cardinality({ k \in start..j : Lexical(src, start, k) = "out" /\ src[k] = "}" })

\* C16: from the first `{` of the scanned text, extractJsonObject returns
\* the text up to and including the first `}` outside any string literal
\* at which the braces outside string literals balance, whatever braces,
\* escaped quotes and backslashes the string literals contain.
C16_BracesInStringsIgnored ==
    call.applied =>
        LET src == FenceStrip(call.text)
            start == IndexOf(src, "{")
            closing == { j \in start..Len(src) : Balance(src, start, j) = 0 }
        IN  (start # 0 /\ closing # {}) =>
                LET end == CHOOSE j \in closing : \A k \in closing : j <= k
                IN  /\ call.out.ok
                    /\ call.out.json = SubSeq(src, start, end)
                    /\ Lexical(src, start, end) = "out"
                    /\ src[end] = "}"

C16_Witness ==
    /\ call.applied
    /\ call.text = <<"{", "\"", "\\", "\"", "}", "\"", "}">>
    /\ call.out.ok
    /\ call.out.json = call.text

(***************************************************************************)
(* checkOfflinePackUpdate: componentsToUpdate as a function of the remote  *)
(* manifest and the local manifest.                                        *)
(***************************************************************************)
\* Model entries a manifest may carry: another url, hash or version, and
\* entries that lack the url or the path.
ModelVariants ==
    { [ModelBase EXCEPT !.url = u, !.sha256 = h, !.version = v, !.path = pa] :
        u \in {"u-model", "u-model-2", Undef},
        h \in {"h1", "h2"},
        v \in {Null, "c2", Undef},
        pa \in {ModelPath, Undef} }

LlamaVariants == { LlamaBase, [LlamaBase EXCEPT !.sha256 = "h2"] }

CheckedManifests ==
    { Manifest("v1", common, plat) :
        common \in {<<>>} \cup { <<c>> : c \in ModelVariants },
        plat \in {<<>>} \cup { <<c>> : c \in LlamaVariants } }

\* .offline-pack.json as updateOfflineResources writes it
LocalManifestOf(entries) ==
    [exists |-> TRUE, version |-> "v1",
     components |-> [n \in { e.name : e \in entries } |->
                        CHOOSE e \in entries : e.name = n]]

LocalManifests ==
    { NoManifest } \cup
    { LocalManifestOf(ms \cup ls) :
        ms \in {{}} \cup { {Recorded(c)} : c \in
                    { m \in ModelVariants : Truthy(m.url) /\ Truthy(m.path) } },
        ls \in {{}, {Recorded(LlamaBase)}} }

NoNames == <<>>

InitCheck ==
    /\ remote = BaseManifest
    /\ disk = EmptyDisk
    /\ localManifest = NoManifest
    /\ op = IdleOp
    /\ offlineUpdateInfo = NoInfo
    /\ lastApplied = FALSE
    /\ batch = NoBatch
    /\ ui = NoUi
    /\ call \in [fn : {"componentsToUpdate"}, remote : CheckedManifests,
                 local : LocalManifests, applied : {FALSE}, out : {NoNames}]

CallComponentsToUpdate ==
    /\ call.fn = "componentsToUpdate"
    /\ ~call.applied
    /\ call' = [call EXCEPT
            !.applied = TRUE,
            !.out = ComponentsToUpdate(ApplicableComponents(call.remote),
                                       call.local)]
    /\ UNCHANGED <<packVars, batch, ui>>

NextCheck == CallComponentsToUpdate

SpecCheck == InitCheck /\ [][NextCheck]_vars

\* the claim's condition: no local entry under the name, or a recorded
\* url, sha256 or version other than the remote one
AbsentOrDiffers(c, lm) ==
    \/ c.name \notin DOMAIN lm.components
    \/ LET prev == lm.components[c.name]
       IN  prev.url # c.url \/ prev.sha256 # c.sha256 \/ prev.version # c.version

OtherPlatformNames ==
    { c.name : c \in SeqRange(call.remote.platform[OtherPlatformKey]) }

\* C21 as stated: every applicable remote component is listed exactly when
\* it has no local entry or its url, sha256 or version differs; components
\* of other platforms are never listed.
C21_ListedIffAbsentOrDiffers ==
    call.applied =>
        /\ \A c \in SeqRange(ApplicableComponents(call.remote)) :
            (c.name \in SeqRange(call.out)) <=> AbsentOrDiffers(c, call.local)
        /\ SeqRange(call.out) \cap OtherPlatformNames = {}

\* C21 amended: an applicable remote component that has a name, a url and
\* a path is listed exactly when it has no local entry or its url, sha256
\* or version differs; a component without url or path is never listed,
\* nor is a component of another platform.
C21_WellFormedListedIffAbsentOrDiffers ==
    call.applied =>
        /\ \A c \in SeqRange(ApplicableComponents(call.remote)) :
            (c.name \in SeqRange(call.out)) <=>
                /\ c.name \notin {Undef, Null}
                /\ c.url \notin {Undef, Null}
                /\ c.path \notin {Undef, Null}
                /\ AbsentOrDiffers(c, call.local)
        /\ SeqRange(call.out) \cap OtherPlatformNames = {}

C21_Witness ==
    /\ call.applied
    /\ call.out = <<"model-8b-q4">>
    /\ call.remote.platform[PlatformKey] = <<LlamaBase>>
    /\ "model-8b-q4" \in DOMAIN call.local.components
    /\ call.local.components["model-8b-q4"].url = call.remote.common[1].url
    /\ call.local.components["model-8b-q4"].sha256 = call.remote.common[1].sha256
    /\ call.local.components["model-8b-q4"].version # call.remote.common[1].version

(***************************************************************************)
(* Further properties of the resource pack, checked under Spec             *)
(***************************************************************************)
\* The step of updateOfflineResources in which a component's download or
\* extraction throws.
ComponentFails == op.pc = "loop" /\ op'.pc \in {"done", "legacy"}

C23_InstallReplacesDirectory ==
    (op.kind = "install" /\ op.pc = "done" /\ op.err = "none"
        /\ ~StatusInstalled(op.preDisk)) =>
        (op.packInstalled /\ disk = PackDisk(op.pack))

(***************************************************************************)
(* Further properties of the analysis, checked under SpecAnalysis          *)
(***************************************************************************)
\* The awaits of analyzePdfAtPath and of runLlamaCli in program order.
PcOrder ==
    <<"extract", "probe", "ocr", "reextract", "prompt", "write", "spawn",
      "child", "json">>

PcRank(pc) == CHOOSE k \in 1..Len(PcOrder) : PcOrder[k] = pc

\* C24: for one file the stages run in the order extraction, OCR with
\* re-extraction (when taken), prompt, model, JSON extraction and
\* validation; a stage starts only from the one before it, the model is
\* started at most once per file, and after a stage has thrown no stage of
\* that file runs.
C24_StagesInOrder ==
    [][LET p == batch.p
           q == batch'.p
       IN  /\ (p.pc # "none" /\ q.pc # "none" /\ q.pc # p.pc) =>
                 /\ PcRank(q.pc) > PcRank(p.pc)
                 /\ q.pc = "reextract" => p.pc = "ocr"
                 /\ q.pc = "write" => p.pc = "prompt"
                 /\ q.pc = "json" => p.pc = "child"
           /\ (p.pc = "none" /\ q.pc # "none") =>
                 /\ q.pc = "extract"
                 /\ batch'.i = batch.i + 1
                 /\ q.thrown = NoError /\ ~q.spawned /\ ~q.modelInvoked
           /\ q.thrown # NoError => q.pc = "none"
           /\ (q.spawned /\ ~p.spawned) => p.pc = "spawn"
           /\ batch'.children > batch.children =>
                 (p.pc = "spawn" /\ ~p.spawned /\ batch.children = 0)
      ]_vars

C24_Witness ==
    /\ batch.p.pc = "none"
    /\ batch.p.ocr = "available"
    /\ batch.p.spawned
    /\ batch.p.returned # NoData
    /\ Len(batch.out) = 2
    /\ ~batch.out[1].ok

\* C25: OCR is attempted exactly when the first extraction has fewer than
\* 500 characters or no non-empty page and the OCR tool is found; the text
\* is extracted again only from the OCR output; the model is invoked only
\* when the text last extracted has at least 500 characters and a non-empty
\* page; the insufficient-text error advises installing an OCR tool when
\* none was found and reports the OCR attempt otherwise.
C25_OcrWhenNeededAndAvailable ==
    [][LET p == batch.p
           q == batch'.p
           TooLittle(pages) ==
               TotalChars(pages) < 500 \/ NonEmptyPages(pages) = 0
       IN  /\ (p.pc = "extract" /\ q.pc # "none") =>
                 /\ q.ocr = "unprobed"
                 /\ q.pc = IF TooLittle(q.pages) THEN "probe" ELSE "prompt"
           /\ (p.pc = "probe" /\ q.pc # "probe") =>
                 /\ q.ocr # "unprobed"
                 /\ (q.pc = "ocr") = (q.ocr = "available")
                 /\ q.pc = "ocr" => q.pages = p.pages
                 /\ q.pc # "ocr" =>
                       /\ q.pc = "none"
                       /\ q.thrown.kind = "extraction-insufficient"
           /\ (q.pc = "ocr" /\ p.pc # "ocr") =>
                 (p.pc = "probe" /\ TooLittle(p.pages))
           /\ (q.pc = "reextract" /\ p.pc # "reextract") => p.pc = "ocr"
           /\ (p.pc = "ocr" /\ q.pc \notin {"ocr", "reextract"}) =>
                 /\ q.pc = "none"
                 /\ q.thrown.kind = "extraction-insufficient"
           /\ (p.pc = "reextract" /\ q.pc # "reextract") =>
                 \/ q.pc = "prompt" /\ ~TooLittle(q.pages)
                 \/ q.pc = "none" /\ q.thrown.kind \in
                        {"extraction-insufficient", "extract-failed"}
           /\ (q.modelInvoked /\ ~p.modelInvoked) =>
                 (p.pc = "prompt" /\ ~TooLittle(p.pages))
           /\ q.thrown.kind = "extraction-insufficient" =>
                 /\ ~q.modelInvoked
                 /\ q.ocr # "unprobed"
                 /\ q.thrown.advice = IF q.ocr = "unavailable"
                                      THEN "install-ocr"
                                      ELSE "ocr-attempted"
      ]_vars

C25_Witness ==
    /\ batch.p.pc = "none"
    /\ batch.p.ocr = "available"
    /\ batch.p.thrown.kind = "extraction-insufficient"
    /\ batch.p.thrown.advice = "ocr-attempted"
    /\ ~batch.p.zeroText

\* C28: the events synthesized while the child runs are 'model' events
\* whose percent is within 60..95 and never below the one before; an event
\* with percent 100 or stage 'done' is emitted only by the step that
\* validated the output of a child that exited with code 0, and the file
\* it is emitted for returns its report.
C28_RampThenDoneOnlyOnSuccess ==
    [][LET p == batch.p
           q == batch'.p
           Final(e) == e.percent = 100 \/ e.stage = "done"
       IN  /\ (batch.children > 0 /\ q.emitted # <<>> /\ q.elapsed # p.elapsed) =>
                 /\ p.pc = "child" /\ q.pc = "child"
                 /\ q.elapsed > p.elapsed
                 /\ Len(q.emitted) = 1
                 /\ q.emitted[1].stage = "model"
                 /\ q.emitted[1].percent \in 60..95
                 /\ p.emitted # <<>> =>
                       q.emitted[1].percent >= p.emitted[1].percent
           /\ batch'.children > 0 =>
                 \A k \in DOMAIN q.emitted : ~Final(q.emitted[k])
           /\ (q.emitted # p.emitted
               /\ \E k \in DOMAIN q.emitted : Final(q.emitted[k])) =>
                 /\ p.pc = "json" /\ q.pc = "none"
                 /\ p.exit = "0"
                 /\ batch.children = 0
                 /\ MeetsStatedSchema(p.raw.data)
                 /\ q.returned = p.raw.data
                 /\ q.thrown = NoError
                 /\ batch'.out[batch'.i].ok
                 /\ \A k \in DOMAIN q.emitted :
                       Final(q.emitted[k]) => k = Len(q.emitted)
      ]_vars

C28_Witness ==
    /\ batch.p.pc = "none"
    /\ batch.p.exit = "0"
    /\ batch.p.returned # NoData
    /\ batch.p.emitted = <<Event("parsing", 96), Event("done", 100)>>
    /\ batch.out[batch.i].ok

\* C29: every event analyzePdfAtPath hands to onProgress has one of the
\* stages extracting, ocr, prompt, model, parsing, done, error and a percent
\* from 0 to 100.
C29_EventsWellFormed ==
    \A k \in DOMAIN batch.p.emitted :
        /\ batch.p.emitted[k].stage \in
              {"extracting", "ocr", "prompt", "model", "parsing", "done",
               "error"}
        /\ batch.p.emitted[k].percent \in 0..100

(***************************************************************************)
(* Further properties of extractJsonObject, checked under SpecJson         *)
(***************************************************************************)
\* C26: when the scanned text has a `{` and no `}` at which the braces
\* balance, extractJsonObject returns the text from the first `{` to the
\* last `}`; it throws only when the scanned text has no `{` or has no `}`
\* after the first `{`.
C26_FallsBackToLastBrace ==
    call.applied =>
        LET src == FenceStrip(call.text)
            start == IndexOf(src, "{")
            closing == { j \in start..Len(src) : Balance(src, start, j) = 0 }
            after == { j \in (start + 1)..Len(src) : src[j] = "}" }
        IN  /\ call.out.ok = (start # 0 /\ after # {})
            /\ (start # 0 /\ closing = {} /\ after # {}) =>
                  LET last == CHOOSE j \in after : \A k \in after : j >= k
                  IN  call.out.json = SubSeq(src, start, last)
            /\ ~call.out.ok =>
                  call.out.error = IF start = 0 THEN "no-object"
                                   ELSE "incomplete"

C26_Witness ==
    /\ call.applied
    /\ call.text = <<"{", "\"", "}", "{", "}">>
    /\ call.out.ok
    /\ call.out.json = call.text

(***************************************************************************)
(* llamaRunner.js: where runLlamaCli looks for the binary and the model.   *)
(* A resource location is the set of candidate binaries it holds (by their *)
(* position in the candidate list) and whether it holds the model file.    *)
(***************************************************************************)
Candidates(platform) ==
    IF platform = "win32" THEN <<"llama.exe", "llama-cli.exe", "main.exe">>
    ELSE <<"llama", "llama-cli", "main">>

Locations == [bins : SUBSET (1..3), model : BOOLEAN]
EmptyLocation == [bins |-> {}, model |-> FALSE]

\* what exists on the machine: a user directory that does not exist holds
\* nothing
Machines ==
    { m \in [platform : Platforms, userDirExists : BOOLEAN,
             user : Locations, packaged : Locations] :
        ~m.userDirExists => m.user = EmptyLocation }

GetResourcesBasePackaged(m) == "packaged"

GetResourcesBase(m) == IF m.userDirExists THEN "user" ELSE "packaged"

NoBinary == [base |-> "none", name |-> "none"]

\* the first candidate that exists under base, or null
FindLlamaBinary(m, base) ==
    LET here == IF base = "user" THEN m.user.bins ELSE m.packaged.bins
    IN  IF here = {} THEN NoBinary
        ELSE [base |-> base,
              name |-> Candidates(m.platform)[
                          CHOOSE k \in here : \A j \in here : k <= j]]

\* getModelPath(resourcesBase) and the fs.existsSync test on it
ModelAt(m, base) ==
    [base |-> base,
     exists |-> IF base = "user" THEN m.user.model ELSE m.packaged.model]

\* the first three statements of runLlamaCli
ResolveResources(m) ==
    LET resourcesBase == GetResourcesBase(m)
    IN  [llamaBin |-> FindLlamaBinary(m, resourcesBase),
         model |-> ModelAt(m, resourcesBase)]

NoResolution == [llamaBin |-> NoBinary, model |-> [base |-> "none", exists |-> FALSE]]

InitResolve ==
    /\ remote = BaseManifest
    /\ disk = EmptyDisk
    /\ localManifest = NoManifest
    /\ op = IdleOp
    /\ offlineUpdateInfo = NoInfo
    /\ lastApplied = FALSE
    /\ batch = NoBatch
    /\ ui = NoUi
    /\ call \in [fn : {"resolveResources"}, machine : Machines,
                 applied : {FALSE}, out : {NoResolution}]

CallResolveResources ==
    /\ call.fn = "resolveResources"
    /\ ~call.applied
    /\ call' = [call EXCEPT !.applied = TRUE,
                            !.out = ResolveResources(call.machine)]
    /\ UNCHANGED <<packVars, batch, ui>>

NextResolve == CallResolveResources

SpecResolve == InitResolve /\ [][NextResolve]_vars

\* C27: the binary and the model file are each looked for in the user
\* directory first and in the packaged resources second: one that the user
\* directory lacks and the packaged resources hold is found there, also
\* when the user directory exists.
C27_EachResolvedUserThenPackaged ==
    call.applied =>
        LET m == call.machine
        IN  /\ call.out.llamaBin =
                  IF m.user.bins # {} THEN FindLlamaBinary(m, "user")
                  ELSE FindLlamaBinary(m, "packaged")
            /\ call.out.model.exists = (m.user.model \/ m.packaged.model)

(***************************************************************************)
(* Renderer: App.tsx (isLoading) and components/DesktopFilePicker.tsx.     *)
(* A flag is set by the click that starts the call and cleared in the      *)
(* finally block that follows its await.                                   *)
(***************************************************************************)
SelectedCounts == 0..2
InstalledValues == {"unknown", "no", "yes"}      \* offlineStatus?.installed
NeedsUpdateValues == {Undef, "true", "false"}    \* offlineUpdateInfo?.needsUpdate

MountedUi ==
    [mounted |-> TRUE, isLoading |-> FALSE, isInstallingOffline |-> FALSE,
     isInstallingFromZip |-> FALSE, isUpdatingOffline |-> FALSE,
     selectedFiles |-> 0, installed |-> "unknown", needsUpdate |-> Undef]

\* disabled= of the buttons of the "not installed" panel
InstallDisabled(u) ==
    u.isLoading \/ u.isInstallingOffline \/ u.isInstallingFromZip

\* disabled= of the buttons of the "installed" panel
InstalledPanelDisabled(u) == InstallDisabled(u) \/ u.isUpdatingOffline

UpdateDisabled(u) == InstalledPanelDisabled(u) \/ u.needsUpdate = "false"

\* disabled= of the Analyze button
AnalyzeDisabled(u) ==
    u.selectedFiles = 0 \/ u.isLoading \/ u.isInstallingOffline

InitUi ==
    /\ remote = BaseManifest
    /\ disk = EmptyDisk
    /\ localManifest = NoManifest
    /\ op = IdleOp
    /\ offlineUpdateInfo = NoInfo
    /\ lastApplied = FALSE
    /\ batch = NoBatch
    /\ call = NoCall
    /\ ui = MountedUi

\* refreshOfflineStatus: on mount, from its buttons and after an update
RefreshOfflineStatus ==
    /\ \E installed \in {"no", "yes"} : ui' = [ui EXCEPT !.installed = installed]
    /\ UNCHANGED <<packVars, batch, call>>

HandlePick ==
    /\ ~(ui.isLoading \/ ui.isInstallingOffline)
    /\ \E n \in SelectedCounts : ui' = [ui EXCEPT !.selectedFiles = n]
    /\ UNCHANGED <<packVars, batch, call>>

\* handleAnalyzeClick -> handleAnalyzeDesktop: setIsLoading(true)
HandleAnalyzeClick ==
    /\ ~AnalyzeDisabled(ui)
    /\ ui' = [ui EXCEPT !.isLoading = TRUE]
    /\ UNCHANGED <<packVars, batch, call>>

\* handleAnalyzeDesktop: finally setIsLoading(false)
AnalysisSettles ==
    /\ ui.isLoading
    /\ ui' = [ui EXCEPT !.isLoading = FALSE]
    /\ UNCHANGED <<packVars, batch, call>>

HandleInstallOffline ==
    /\ ui.installed = "no"
    /\ ~InstallDisabled(ui)
    /\ ui' = [ui EXCEPT !.isInstallingOffline = TRUE]
    /\ UNCHANGED <<packVars, batch, call>>

\* the await of handleInstallOffline returns a status or throws
InstallSettles ==
    /\ ui.isInstallingOffline
    /\ \E installed \in {ui.installed, "no", "yes"} :
         ui' = [ui EXCEPT !.isInstallingOffline = FALSE,
                          !.installed = installed]
    /\ UNCHANGED <<packVars, batch, call>>

\* "Install from ZIP" of the first panel, "Reinstall from ZIP" of the second
HandleInstallOfflineFromZip ==
    /\ \/ ui.installed = "no" /\ ~InstallDisabled(ui)
       \/ ui.installed = "yes" /\ ~InstalledPanelDisabled(ui)
    /\ ui' = [ui EXCEPT !.isInstallingFromZip = TRUE]
    /\ UNCHANGED <<packVars, batch, call>>

ZipInstallSettles ==
    /\ ui.isInstallingFromZip
    /\ \E installed \in {ui.installed, "no", "yes"} :
         ui' = [ui EXCEPT !.isInstallingFromZip = FALSE,
                          !.installed = installed]
    /\ UNCHANGED <<packVars, batch, call>>

\* the "Check Offline Pack Update" button; the result is stored when the
\* check has returned
ClickCheckOfflineUpdate ==
    /\ ui.installed = "yes"
    /\ ~InstalledPanelDisabled(ui)
    /\ \E n \in {"true", "false"} : ui' = [ui EXCEPT !.needsUpdate = n]
    /\ UNCHANGED <<packVars, batch, call>>

HandleUpdateOfflinePack ==
    /\ ui.installed = "yes"
    /\ ~UpdateDisabled(ui)
    /\ ui' = [ui EXCEPT !.isUpdatingOffline = TRUE]
    /\ UNCHANGED <<packVars, batch, call>>

\* after the await: refreshOfflineStatus and handleCheckOfflineUpdate on
\* success, the error message otherwise; finally setIsUpdatingOffline(false)
UpdateSettles ==
    /\ ui.isUpdatingOffline
    /\ \E n \in {ui.needsUpdate, "true", "false"} :
         ui' = [ui EXCEPT !.isUpdatingOffline = FALSE, !.needsUpdate = n]
    /\ UNCHANGED <<packVars, batch, call>>

NextUi ==
    \/ RefreshOfflineStatus
    \/ HandlePick
    \/ HandleAnalyzeClick
    \/ AnalysisSettles
    \/ HandleInstallOffline
    \/ InstallSettles
    \/ HandleInstallOfflineFromZip
    \/ ZipInstallSettles
    \/ ClickCheckOfflineUpdate
    \/ HandleUpdateOfflinePack
    \/ UpdateSettles

SpecUi == InitUi /\ [][NextUi]_vars

\* C30: an analysis is never in flight together with an install, an
\* install from a zip or a pack update: the Analyze button is disabled
\* while one of those runs, and their buttons are disabled while an
\* analysis runs.
C30_AnalysisAndMutationExclusive ==
    ~(ui.isLoading /\ (ui.isInstallingOffline \/ ui.isInstallingFromZip
                       \/ ui.isUpdatingOffline))

(***************************************************************************)
(* Downloads: downloadToFileNode of offlineResourcesInstaller.js (used for *)
(* the manifest and for every component) and httpGetBuffer of              *)
(* offlinePackUpdater.js.  One step is one request and the handling of its *)
(* response; the servers answer as they please.                            *)
(***************************************************************************)
MaxHops == 8
MAX_REDIRECTS == 5

Protocols == {"https", "http"}
DownloadFns == {"downloadToFileNode", "httpGetBuffer"}

\* the module the requests are made with: chosen once from the first url
\* in downloadToFileNode, always https in httpGetBuffer
ProtoOf(fn, urlProtocol) ==
    IF fn = "downloadToFileNode" THEN urlProtocol ELSE "https"

StartDownload(fn, urlProtocol) ==
    [fn |-> fn, proto |-> ProtoOf(fn, urlProtocol),
     redirectsLeft |-> IF fn = "downloadToFileNode" THEN MAX_REDIRECTS ELSE 0,
     followed |-> 0, last |-> "none",
     \* proto.get throws at once for a url of the other protocol: inside the
     \* Promise executor, which rejects
     outcome |-> IF ProtoOf(fn, urlProtocol) = urlProtocol THEN "pending"
                 ELSE "rejected"]

\* a 3xx response with a location header pointing at a url of protocol p.
\* Requesting a url of the other protocol throws: in downloadToFileNode out
\* of the response callback, which leaves the promise unsettled; in
\* httpGetBuffer inside the executor of the nested promise, which rejects.
FollowRedirect(d, p) ==
    IF p # d.proto
    THEN [d EXCEPT !.last = "redirect",
                   !.outcome = IF d.fn = "downloadToFileNode" THEN "hung"
                               ELSE "rejected"]
    ELSE [d EXCEPT !.last = "redirect", !.followed = @ + 1]

InitDownload ==
    /\ remote = BaseManifest
    /\ disk = EmptyDisk
    /\ localManifest = NoManifest
    /\ op = IdleOp
    /\ offlineUpdateInfo = NoInfo
    /\ lastApplied = FALSE
    /\ batch = NoBatch
    /\ ui = NoUi
    /\ call \in { StartDownload(fn, p) : fn \in DownloadFns, p \in Protocols }

\* doRequest(currentUrl, redirectsLeft) with the response it gets
DoRequest ==
    /\ call.fn = "downloadToFileNode"
    /\ call.outcome = "pending"
    /\ \/ \E p \in Protocols :
            call' = IF call.redirectsLeft <= 0
                    THEN [call EXCEPT !.last = "redirect",
                                      !.outcome = "rejected"]
                    ELSE [FollowRedirect(call, p) EXCEPT !.redirectsLeft = @ - 1]
       \/ \E status \in {"3xx-no-location", "404"} :
            call' = [call EXCEPT !.last = status, !.outcome = "rejected"]
       \/ \E written \in BOOLEAN :    \* file 'finish' or file 'error'
            call' = [call EXCEPT !.last = "200",
                        !.outcome = IF written THEN "resolved" ELSE "rejected"]
       \/ call' = [call EXCEPT !.last = "error", !.outcome = "rejected"]
    /\ UNCHANGED <<packVars, batch, ui>>

\* httpGetBuffer(url) with the response it gets
HttpGetBuffer ==
    /\ call.fn = "httpGetBuffer"
    /\ call.outcome = "pending"
    /\ call.followed < MaxHops
    /\ \/ \E p \in Protocols : call' = FollowRedirect(call, p)
       \/ \E status \in {"3xx-no-location", "404"} :
            call' = [call EXCEPT !.last = status, !.outcome = "rejected"]
       \/ call' = [call EXCEPT !.last = "200", !.outcome = "resolved"]
       \/ call' = [call EXCEPT !.last = "error", !.outcome = "rejected"]
    /\ UNCHANGED <<packVars, batch, ui>>

NextDownload == DoRequest \/ HttpGetBuffer

SpecDownload == InitDownload /\ [][NextDownload]_vars

\* C31: a download follows at most 5 redirects: it never makes a request
\* after a 6th redirect, a 200 response reached over at most 5 redirects
\* ends it (successfully, unless the file cannot be written), a 6th
\* redirect ends it with an error, and it is never left unsettled.
C31_AtMostFiveRedirects ==
    /\ call.followed <= MAX_REDIRECTS
    /\ call.outcome # "hung"
    /\ call.last = "200" => call.outcome \in {"resolved", "rejected"}
    /\ (call.last = "redirect" /\ call.outcome = "rejected"
            /\ call.fn = "downloadToFileNode") =>
           call.followed = MAX_REDIRECTS

(***************************************************************************)
(* extractPdfPagesText, in its two versions: pdfTextExtractor.js reports   *)
(* stage 'extract' before it reads a page, the other version reports       *)
(* stage 'extracting' after it has pushed the page.  One step is one       *)
(* iteration of the page loop.                                             *)
(***************************************************************************)
PageContents == {"", "text"}
PdfFiles == UNION { [1..n -> PageContents] : n \in 0..MaxPages }
ProgressCallbacks == {"none", "function", "throwing"}

PageEntryZeroBased(pageNumber, text) == [pageNumber |-> pageNumber - 1, text |-> text]
PageEntry(pageNumber, text) == [pageNumber |-> pageNumber, text |-> text]

\* try { onProgress({ stage, pageNumber, totalPages }) } catch { }: the
\* events the callback has been called with
OnProgress(c) ==
    IF c.onProgress = "none" THEN c
    ELSE [c EXCEPT !.events = Append(@, [stage |-> c.stage,
                                          pageNumber |-> c.pageNumber,
                                          totalPages |-> Len(c.doc)])]

PushPage(c) ==
    [c EXCEPT !.pages = Append(@, PageEntry(c.pageNumber, c.doc[c.pageNumber]))]

InitExtract ==
    /\ remote = BaseManifest
    /\ disk = EmptyDisk
    /\ localManifest = NoManifest
    /\ op = IdleOp
    /\ offlineUpdateInfo = NoInfo
    /\ lastApplied = FALSE
    /\ batch = NoBatch
    /\ ui = NoUi
    /\ call \in [fn : {"extractPdfPagesText"}, stage : ExtractorStages,
                 doc : PdfFiles, onProgress : ProgressCallbacks,
                 pageNumber : {1}, pages : {<<>>}, events : {<<>>},
                 pc : {"loop"}]

\* one iteration: pageNumber <= pdf.numPages
ExtractPage ==
    /\ call.fn = "extractPdfPagesText"
    /\ call.pc = "loop"
    /\ call.pageNumber <= Len(call.doc)
    /\ \E readable \in BOOLEAN :   \* pdf.getPage / getTextContent may reject
         LET before == IF call.stage = "extract" THEN OnProgress(call) ELSE call
             pushed == PushPage(before)
             after  == IF call.stage = "extracting" THEN OnProgress(pushed)
                       ELSE pushed
         IN  call' = IF readable
                     THEN [after EXCEPT !.pageNumber = @ + 1]
                     ELSE [before EXCEPT !.pc = "thrown"]
    /\ UNCHANGED <<packVars, batch, ui>>

\* the loop condition fails: return pages
ExtractReturn ==
    /\ call.fn = "extractPdfPagesText"
    /\ call.pc = "loop"
    /\ call.pageNumber > Len(call.doc)
    /\ call' = [call EXCEPT !.pc = "returned"]
    /\ UNCHANGED <<packVars, batch, ui>>

NextExtract == ExtractPage \/ ExtractReturn

SpecExtract == InitExtract /\ [][NextExtract]_vars

\* C32: for a document of N pages the extractor returns exactly N entries,
\* entry i numbered i and holding the text of page i whatever the progress
\* callback does, and a callback that was passed has been called exactly
\* once per page, in page order, with that page number and totalPages = N.
C32_OnePagePerEntryOneEventPerPage ==
    call.pc = "returned" =>
        /\ Len(call.pages) = Len(call.doc)
        /\ \A i \in 1..Len(call.doc) :
               call.pages[i] = [pageNumber |-> i, text |-> call.doc[i]]
        /\ call.onProgress # "none" =>
               /\ Len(call.events) = Len(call.doc)
               /\ \A i \in 1..Len(call.doc) :
                      call.events[i] = [stage |-> call.stage, pageNumber |-> i,
                                        totalPages |-> Len(call.doc)]

C32_Witness ==
    /\ call.pc = "returned"
    /\ Len(call.doc) = MaxPages
    /\ call.onProgress = "throwing"
    /\ Len(call.events) = MaxPages

\* C33: install() always terminates: the calls install -> update -> install
\* (update falling back to install when the manifest lists no component)
\* stop nesting at some depth, so the nesting of update calls inside
\* install calls stays below the depth MaxDepth up to which it is followed.
C33_MutualRecursionBounded ==
    op.frames < MaxDepth

\* C34: right after an update against manifest M has succeeded, a check
\* against the same M reports installedVersion = M.version and an empty
\* componentsToUpdate, also when components of M omit version or sha256.
C34_CheckAfterUpdateIsIdempotent ==
    (lastApplied /\ op.pc = "done" /\ op.err = "none") =>
        LET r == CheckResult(remote, disk, localManifest)
        IN  /\ r.installedVersion = remote.version
            /\ r.componentsToUpdate = <<>>

(***************************************************************************)
(* The paths getOfflineResourcesStatus probes (getExpectedPaths under the  *)
(* user directory) against the paths runLlamaCli resolves.  A platform key *)
(* 'mac-arm64' is written as the pair of its two parts.                    *)
(***************************************************************************)
Archs == {"arm64", "x64"}
ProcessPlatforms == Platforms \cup {"linux"}

\* platformKey of getExpectedPaths
ExpectedPlatformKey(platform, arch) ==
    IF platform = "darwin"
    THEN (IF arch = "arm64" THEN [os |-> "mac", arch |-> "arm64"]
          ELSE [os |-> "mac", arch |-> "x64"])
    ELSE (IF platform = "win32" THEN [os |-> "win", arch |-> "x64"]
          ELSE [os |-> platform, arch |-> arch])

\* getPlatformKey of the runner
GetPlatformKey(platform, arch) ==
    IF platform = "darwin"
    THEN (IF arch = "arm64" THEN [os |-> "mac", arch |-> "arm64"]
          ELSE [os |-> "mac", arch |-> "x64"])
    ELSE IF platform = "win32" THEN [os |-> "win", arch |-> "x64"]
    ELSE [os |-> platform, arch |-> arch]

\* llamaBin of getExpectedPaths
ExpectedLlamaBin(platform) == IF platform = "win32" THEN "llama.exe" ELSE "llama"

\* missing.length === 0 for the files of machine m: both expected paths
\* exist under the user directory
MachineStatusInstalled(m) ==
    /\ m.user.model
    /\ \E k \in m.user.bins :
          Candidates(m.platform)[k] = ExpectedLlamaBin(m.platform)

\* C35: when the status check reports installed = true, the runner, on the
\* same files, resolves a binary and an existing model (it fails with
\* neither missing-binary nor missing-model), both under the user directory,
\* and the platform directory the status check probes is the one the runner
\* searches.
C35_InstalledImpliesRunnerResolves ==
    /\ (call.applied /\ MachineStatusInstalled(call.machine)) =>
          /\ call.out.llamaBin # NoBinary
          /\ call.out.llamaBin.base = "user"
          /\ call.out.model = [base |-> "user", exists |-> TRUE]
    /\ \A p \in ProcessPlatforms, a \in Archs :
          ExpectedPlatformKey(p, a) = GetPlatformKey(p, a)

C35_Witness ==
    /\ call.applied
    /\ MachineStatusInstalled(call.machine)
    /\ call.machine.packaged = EmptyLocation
    /\ call.machine.user.bins = {1}
    /\ call.out.llamaBin = [base |-> "user", name |-> "llama"]

(***************************************************************************)
(* The prompt against the context window the runner asks llama.cpp for.    *)
(***************************************************************************)
\* '--ctx-size', '4096' and '--n-predict', '1536' of runLlamaCli
CTX_SIZE_ARG == 4096
N_PREDICT_ARG == 1536

\* characters / 4, rounded up
EstimatedTokens(chars) ==
    (chars + APPROX_CHARS_PER_TOKEN - 1) \div APPROX_CHARS_PER_TOKEN

\* C36: for every document, the estimated token count of the prompt the
\* analyzer builds (buildPrompt({ pages }), truncation marker included) plus
\* the runner's --n-predict does not exceed the runner's --ctx-size.
C36_PromptPlusPredictFitsContext ==
    (call.applied /\ call.ctxSize = DEFAULT_CTX_SIZE
                  /\ call.nPredict = DEFAULT_N_PREDICT) =>
        EstimatedTokens(PromptLen(call.out)) + N_PREDICT_ARG <= CTX_SIZE_ARG

C36_Witness ==
    /\ call.applied
    /\ call.ctxSize = DEFAULT_CTX_SIZE
    /\ call.nPredict = DEFAULT_N_PREDICT
    /\ call.out.marker = TruncationMarker
    /\ EstimatedTokens(PromptLen(call.out)) = 2312

(***************************************************************************)
(* The progress events of one updateOfflineResources({ onProgress }) call. *)
(* A percent value is kept in halves of a percent, which is exact for the  *)
(* one or two components a manifest lists for the platform.                *)
(***************************************************************************)
PercentOf(whole) == 2 * whole

\* ((done - 1) / total) * 100
BasePercent(done, total) == (PercentOf(100) * (done - 1)) \div total

\* (p.percent / 100) * (100 / total), 0 when the response has no
\* content-length
Within(received, contentLength, total) ==
    IF contentLength THEN PercentOf(received) \div total ELSE 0

\* percent of a 'downloading' event sent from the download's data callback
DataPercentUncapped(c) ==
    BasePercent(c.done, Len(c.comps))
        + Within(c.received, c.contentLength, Len(c.comps))

DataPercent(c) == Min(PercentOf(99), DataPercentUncapped(c))

\* if (onProgress) onProgress({ status, percent })
Send(c, status, percent) ==
    IF c.onProgress
    THEN [c EXCEPT !.events = Append(@, [status |-> status, percent |-> percent,
                                          manifestWritten |-> c.manifestWritten])]
    ELSE c

ReceivedSteps == {50, 100}

InitProgress ==
    /\ remote = BaseManifest
    /\ disk = EmptyDisk
    /\ localManifest = NoManifest
    /\ op = IdleOp
    /\ offlineUpdateInfo = NoInfo
    /\ lastApplied = FALSE
    /\ batch = NoBatch
    /\ ui = NoUi
    /\ call \in [fn : {"updateOfflineResources"},
                 comps : { ApplicableComponents(m) : m \in RemoteManifests },
                 onProgress : BOOLEAN, pc : {"start"}, done : {0},
                 contentLength : {FALSE}, received : {0}, events : {<<>>},
                 manifestWritten : {FALSE}]

\* fetch the manifest; without components hand over to the full install
UpdateStart ==
    /\ call.fn = "updateOfflineResources"
    /\ call.pc = "start"
    /\ \E fetched \in BOOLEAN :
         call' = IF ~fetched THEN [call EXCEPT !.pc = "thrown"]
                 ELSE IF call.comps = <<>>
                 THEN [Send(call, "downloading", 0) EXCEPT !.pc = "fallback"]
                 ELSE [call EXCEPT !.pc = "loop"]
    /\ UNCHANGED <<packVars, batch, ui>>

\* top of the loop body: done++, the first 'downloading' event, and the
\* request is made
ComponentStart ==
    /\ call.fn = "updateOfflineResources"
    /\ call.pc = "loop"
    /\ call.done < Len(call.comps)
    /\ \E contentLength \in BOOLEAN :
         LET c == [call EXCEPT !.done = @ + 1, !.received = 0,
                               !.contentLength = contentLength]
         IN  call' = [Send(c, "downloading", BasePercent(c.done, Len(c.comps)))
                        EXCEPT !.pc = "download"]
    /\ UNCHANGED <<packVars, batch, ui>>

\* res.on('data'): more of the file has arrived
DownloadData ==
    /\ call.fn = "updateOfflineResources"
    /\ call.pc = "download"
    /\ \E r \in ReceivedSteps :
         /\ r > call.received
         /\ LET c == [call EXCEPT !.received = r]
            IN  call' = Send(c, "downloading", DataPercent(c))
    /\ UNCHANGED <<packVars, batch, ui>>

\* the download settles; a zip is announced as 'installing' and extracted
DownloadEnd ==
    /\ call.fn = "updateOfflineResources"
    /\ call.pc = "download"
    /\ \E ok \in BOOLEAN :
         call' = IF ~ok THEN [call EXCEPT !.pc = "thrown"]
                 ELSE IF call.comps[call.done].type = "zip"
                 THEN [Send(call, "installing",
                            BasePercent(call.done, Len(call.comps)))
                         EXCEPT !.pc = "extract"]
                 ELSE [call EXCEPT !.pc = "loop"]
    /\ UNCHANGED <<packVars, batch, ui>>

ExtractZip ==
    /\ call.fn = "updateOfflineResources"
    /\ call.pc = "extract"
    /\ \E ok \in BOOLEAN :
         call' = [call EXCEPT !.pc = IF ok THEN "loop" ELSE "thrown"]
    /\ UNCHANGED <<packVars, batch, ui>>

\* after the loop: writeLocalManifest, then the 'done' event, then return
WriteLocalManifest ==
    /\ call.fn = "updateOfflineResources"
    /\ call.pc = "loop"
    /\ call.done = Len(call.comps)
    /\ \E ok \in BOOLEAN :
         call' = IF ~ok THEN [call EXCEPT !.pc = "thrown"]
                 ELSE [Send([call EXCEPT !.manifestWritten = TRUE],
                            "done", PercentOf(100))
                         EXCEPT !.pc = "returned"]
    /\ UNCHANGED <<packVars, batch, ui>>

NextProgress ==
    \/ UpdateStart
    \/ ComponentStart
    \/ DownloadData
    \/ DownloadEnd
    \/ ExtractZip
    \/ WriteLocalManifest

SpecProgress == InitProgress /\ [][NextProgress]_vars

\* C37: within one update the percent values of successive progress events
\* never decrease, stay at or below 99 before the final 'done' event, and
\* the 'done' event with 100 is sent only once the local manifest is
\* written.
C37_ProgressMonotoneThenDone ==
    \A i \in 1..Len(call.events) :
        LET e == call.events[i]
        IN  /\ i > 1 => call.events[i - 1].percent <= e.percent
            /\ e.status # "done" => e.percent <= PercentOf(99)
            /\ e.status = "done" =>
                  /\ e.percent = PercentOf(100)
                  /\ e.manifestWritten
                  /\ i = Len(call.events)

(***************************************************************************)
(* The promise of runLlamaCli with its child process and its progress      *)
(* timer, one step per event the event loop delivers.                      *)
(***************************************************************************)
MaxTicks == 9

\* what spawn() does: the child starts; spawn throws; the child object is
\* returned and an 'error' event follows (ENOENT, EACCES); the child object
\* is returned without stdio streams (EMFILE, ENFILE), so that
\* child.stdout.on throws out of the executor
SpawnResults == {"started", "throws", "error-event", "no-stdio"}

InitRun ==
    /\ remote = BaseManifest
    /\ disk = EmptyDisk
    /\ localManifest = NoManifest
    /\ op = IdleOp
    /\ offlineUpdateInfo = NoInfo
    /\ lastApplied = FALSE
    /\ batch = NoBatch
    /\ ui = NoUi
    /\ call \in [fn : {"runLlamaCli"}, onProgress : BOOLEAN, pc : {"spawn"},
                 timer : {FALSE}, promise : {"pending"}, code : {"none"},
                 events : {0}, lateEvents : {0}]

\* the executor: spawn, setInterval when onProgress is a function, and the
\* handlers
RunSpawn ==
    /\ call.fn = "runLlamaCli"
    /\ call.pc = "spawn"
    /\ \E r \in SpawnResults :
         call' = CASE r = "throws" ->
                        [call EXCEPT !.promise = "rejected", !.pc = "closed"]
                   [] r = "started" ->
                        [call EXCEPT !.timer = call.onProgress, !.pc = "child"]
                   [] r = "error-event" ->
                        [call EXCEPT !.timer = call.onProgress,
                                     !.pc = "spawn-error"]
                   [] r = "no-stdio" ->
                        [call EXCEPT !.timer = call.onProgress,
                                     !.promise = "rejected", !.pc = "detached"]
    /\ UNCHANGED <<packVars, batch, ui>>

\* the interval fires: onProgress({ stage: 'llama', percent })
RunTimerTick ==
    /\ call.fn = "runLlamaCli"
    /\ call.timer
    /\ call.pc # "spawn-error"    \* that event is delivered on the next tick
    /\ call.events < MaxTicks
    /\ call' = [call EXCEPT
                  !.events = @ + 1,
                  !.lateEvents = IF call.promise # "pending" THEN @ + 1 ELSE @]
    /\ UNCHANGED <<packVars, batch, ui>>

\* child.on('error', (err) => reject(err))
RunChildError ==
    /\ call.fn = "runLlamaCli"
    /\ call.pc = "spawn-error"
    /\ call' = [call EXCEPT !.promise = "rejected", !.pc = "closing"]
    /\ UNCHANGED <<packVars, batch, ui>>

\* child.on('close', (code) => ...): clearInterval, then resolve or reject
RunChildClose ==
    /\ call.fn = "runLlamaCli"
    /\ call.pc \in {"child", "closing"}
    /\ \E code \in ExitCodes :
         /\ call.pc = "closing" => code # "0"
         /\ call' = [call EXCEPT
                       !.timer = FALSE,
                       !.code = code,
                       !.promise = IF @ # "pending" THEN @
                                   ELSE IF code = "0" THEN "resolved"
                                   ELSE "rejected",
                       !.pc = "closed"]
    /\ UNCHANGED <<packVars, batch, ui>>

NextRun == RunSpawn \/ RunTimerTick \/ RunChildError \/ RunChildClose

SpecRun == InitRun /\ [][NextRun]_vars

\* C38: once the run has settled, on whatever path, its progress timer is
\* stopped and it has emitted no progress event since.
C38_SettledMeansTimerStopped ==
    call.promise # "pending" => (~call.timer /\ call.lateEvents = 0)

\* C39: whenever install, installFromZip or update returns normally, the
\* status it returns has installed = true and nothing missing; and the
\* result of an update, which is flagged updated = true, is returned only
\* when something was downloaded in the call.
C39_ReturnsInstalledUpdatedMeansDownloaded ==
    (op.pc = "done" /\ op.err = "none"
        /\ op.kind \in {"install", "update", "zip"}) =>
        /\ op.status.installed
        /\ op.status.missing = {}
        /\ op.kind = "update" => (op.downloaded # {} \/ op.packDownloaded)

====
